---- MODULE Spec2Model ----
(***************************************************************************)
(* Model of payload-socket-plugin: SocketIOManager (src/src/socketManager.ts)*)
(* - init and the Redis adapter, the handshake middleware, the             *)
(* per-connection handlers (collection subscriptions, project rooms with   *)
(* join / leave / kick, disconnect) and emitEvent's authorization-gated    *)
(* fanout - together with the plugin's document hooks, the                 *)
(* onSocketConnection callback of the later manager (src/src/types.ts) and *)
(* the example handlers it installs (src/examples).                        *)
(*                                                                         *)
(* Every `await` of the source is a suspension point: a handler is split   *)
(* into the steps between its awaits, and steps of different connections   *)
(* interleave.  Socket.IO itself (rooms, emit, to(room), fetchSockets on   *)
(* the in-memory adapter) is modelled by the operators of the section      *)
(* "Socket.IO primitives".                                                 *)
(***************************************************************************)
EXTENDS Integers, Sequences, FiniteSets, TLC

\* ------------------------------------------------------------------ bounds
\* number of transport connections (socket ids) the model follows
NumSockets == 3

Sockets == 1..NumSockets

\* number of async handlers (join-project, kick-user) suspended at the same time
MaxInFlight == 2

\* number of connections that attempt the handshake when the model starts from init
MaxConnections == 2

\* number of emitEvent calls followed
MaxEmits == 1

\* number of documents payload.create stores
MaxCreated == 1

\* number of document operations whose hooks are followed
MaxOps == 2

\* ------------------------------------------------------------- value sets
None == "none"

\* ids a token can name; "u3" has no user document
UserIds == {"u1", "u2", "u3"}

\* the users collection of the document store: id -> document
UserDocs ==
  [u \in {"u1", "u2"} |->
     [id |-> u,
      email |-> IF u = "u1" THEN "a@x" ELSE "b@x",
      role |-> IF u = "u1" THEN "admin" ELSE "user"]]

Projects == {"p1"}
Collections == {"posts", "media"}

\* payload.secret and a secret that is not payload.secret
PayloadSecret == "secret"
OtherSecret == "forged"

\* handshake.auth.token: absent, or a signed JWT
NoToken ==
  [kind |-> "absent", signedWith |-> None, expired |-> FALSE, id |-> None,
   collection |-> None]
Tokens ==
  {NoToken} \cup
  [kind : {"jwt"}, signedWith : {PayloadSecret, OtherSecret},
   expired : BOOLEAN, id : UserIds, collection : {None, "users"}]

\* wire-level room names
CollectionRoom(c) == <<"collection", c>>
ProjectRoom(p) == <<"project", p, "room">>
IdentityRoom(u) == <<"user", u, "notifications">>
ChatRoom(r) == <<"room", r>>
Rooms == {CollectionRoom(c) : c \in Collections} \cup {ProjectRoom(p) : p \in Projects}

\* the middleware's locals across its await: the token and what it decoded to
NoDecoded == [token |-> NoToken, id |-> None, collection |-> None]

\* users that own projects
Members == DOMAIN UserDocs

\* users that invitations are issued to
Invitees == {"u2"}

\* a projectInvitations document for one (user, project), or None
NoInvitation == [status |-> None, role |-> None]
InvitationDocs ==
  {NoInvitation,
   [status |-> "accepted", role |-> "editor"],
   [status |-> "pending", role |-> "editor"],
   [status |-> "accepted", role |-> "viewer"]}

\* an absent user: socket.user before the handshake, req.user of an anonymous request
NoUser == [id |-> None]

\* RealtimeEventPayload: the document snapshot is absent for a delete
Docs == [id : {"d1"}, status : {"published", "draft"}, author : {"u1", "u2"}]
NoDoc == [id |-> None, status |-> None, author |-> None]
Events ==
  [type : {"update"}, collection : Collections, id : {"d1"}, doc : Docs,
   user : {NoUser}] \cup
  [type : {"delete"}, collection : Collections, id : {"d1"}, doc : {NoDoc},
   user : {NoUser}]
NoEvent == [type |-> None, collection |-> None, id |-> None, doc |-> NoDoc, user |-> NoUser]

\* options.authorize: absent, or a map; handlers: the collections it has a handler for
NoAuthorize == [present |-> FALSE, handlers |-> {}]
AuthorizeMaps == {NoAuthorize, [present |-> TRUE, handlers |-> {}],
                  [present |-> TRUE, handlers |-> {"posts"}]}

\* the plugin options; shouldEmit, transformEvent and onSocketConnection: None, or
\* the name of the function; redis: the redis option is given
OptionSets ==
  [authorize : AuthorizeMaps,
   shouldEmit : {None, "publishedOnly"},
   transformEvent : {None, "hideAuthor"},
   redis : {FALSE},
   includeCollections : {{}},
   onSocketConnection : {None}]
\* no option given: redis not configured, no collection included, no custom callback
NoOptions ==
  [authorize |-> NoAuthorize, shouldEmit |-> None, transformEvent |-> None,
   redis |-> FALSE, includeCollections |-> {}, onSocketConnection |-> None]

\* the emitEvent call: where it waits and its local variables; members is history,
\* the sockets that were in the event's collection room when the call started
Emit(pc, n, event, finalEvent, sockets, i, members) ==
  [pc |-> pc, n |-> n, event |-> event, finalEvent |-> finalEvent,
   sockets |-> sockets, i |-> i, members |-> members]
NoEmit == Emit("idle", 0, NoEvent, NoEvent, <<>>, 0, {})

\* a suspended handler: where it waits and its local variables
Task(pc, p, u, own, snap) ==
  [pc |-> pc, projectId |-> p, userId |-> u, isOwner |-> own, sockets |-> snap]
Idle == Task("idle", None, None, FALSE, {})

\* the two connections to the broker: pubClient and subClient
Clients == {"pub", "sub"}

\* init's position, process.env.REDIS_URL, the broker's state, the clients that have
\* emitted "ready" and whether the replication adapter is installed
Startup(pc, redisUrl, broker, ready, adapter) ==
  [pc |-> pc, redisUrl |-> redisUrl, broker |-> broker, ready |-> ready,
   adapter |-> adapter]
NoStartup == Startup("new", None, "ready", {}, FALSE)

VARIABLES
  io,        \* this.io # null: init has run
  status,    \* per socket: "idle" | "auth" | "connected" | "refused" | "closed"
  decoded,   \* per socket: the middleware's token and decoded claims across its await
  user,      \* per socket: socket.user (NoUser while absent)
  handlers,  \* per socket: the connection callback has registered its handlers
  rooms,     \* per socket: the rooms it is in (the adapter's membership index)
  refusal,   \* per socket: the Error passed to next(), None if none
  task,      \* per socket: its suspended async handler (join-project, kick-user)
  projects,  \* document store, collection projects: id -> owner id (None: no such document)
  invitations, \* document store, collection projectInvitations: <<user, project>> -> document
  options,   \* this.options
  em,        \* the emitEvent call in progress (or the last one): position and locals
  sent,      \* messages sent so far by that emitEvent call, in order
  out,       \* messages sent by the last step, in order
  startup,   \* init's position and the broker it waits for
  remote,    \* the sockets connected to another instance of the cluster
  created,   \* document store: the documents payload.create has stored, in order
  calls,     \* the emitEvent calls of the document hooks, by call number
  log,       \* the messages those calls have sent, in order, each with its call number
  ops        \* the document operations whose hooks were run, in order, and how they ended

gateVars == <<io, status, decoded, user, handlers, refusal, startup, remote>>
storeVars == <<projects, invitations, created, ops>>
emitVars == <<options, em, sent, calls, log>>
vars == <<io, status, decoded, user, handlers, rooms, refusal, task, projects, invitations,
          options, em, sent, out, startup, remote, created, calls, log, ops>>

\* ------------------------------------------------- Socket.IO primitives
Msg(to, ev, data) == [to |-> to, ev |-> ev, data |-> data]

Connected(s) == status[s] = "connected"

\* the connected sockets the adapter lists under a room
InRoom(r) == {s \in Sockets : Connected(s) /\ r \in rooms[s]}

\* the order the adapter lists sockets in: here, by id
RECURSIVE SetToSeq(_)
SetToSeq(S) ==
  IF S = {} THEN <<>>
  ELSE LET m == CHOOSE x \in S : \A y \in S : x <= y
       IN <<m>> \o SetToSeq(S \ {m})

\* io.in(room).fetchSockets(): the local sockets in the room
FetchSockets(r) == InRoom(r)

\* the orders a fetched list can come in: the adapter lists a room's sockets in the
\* order they joined it, which the model does not record
Orders(S) ==
  {q \in [1..Cardinality(S) -> S] : \A i, j \in 1..Cardinality(S) : i # j => q[i] # q[j]}

\* the user property of a socket as fetchSockets hands it out: a socket of another
\* instance comes as a RemoteSocket (id, handshake, rooms, data), which has none
SocketUser(x) == IF x \in remote THEN NoUser ELSE user[x]

\* socket.emit(ev, data)
SocketEmit(s, ev, data) ==
  IF Connected(s) THEN <<Msg(s, ev, data)>> ELSE <<>>

\* a broadcast that reaches every socket of the set twice
BroadcastTwice(S, ev, data) ==
  LET q == SetToSeq(S)
      once == [i \in 1..Len(q) |-> Msg(q[i], ev, data)]
  IN once \o once

\* a broadcast to a set of sockets
Broadcast(S, ev, data) ==
  LET q == SetToSeq(S) IN [i \in 1..Len(q) |-> Msg(q[i], ev, data)]

\* an emit that ignores the room: every connected socket
RoomEmitToAll(r, ev, data) == Broadcast({s \in Sockets : Connected(s)}, ev, data)

\* io.to(room).emit(ev, data)
RoomEmit(r, ev, data) == Broadcast(InRoom(r), ev, data)

\* an emit to the whole room, the sender included
SocketToRoomEmitAll(s, r, ev, data) == Broadcast(InRoom(r), ev, data)

\* socket.to(room).emit(ev, data): the room without the sender
SocketToRoomEmit(s, r, ev, data) == Broadcast(InRoom(r) \ {s}, ev, data)

\* io.emit(ev, data): every connected socket
IoEmit(ev, data) == Broadcast({s \in Sockets : Connected(s)}, ev, data)

\* --------------------------------------------------------------- init
\* the state after new SocketIOManager(options): nothing initialised
Init ==
  /\ io = FALSE
  /\ status = [s \in Sockets |-> "idle"]
  /\ decoded = [s \in Sockets |-> NoDecoded]
  /\ user = [s \in Sockets |-> NoUser]
  /\ handlers = [s \in Sockets |-> FALSE]
  /\ rooms = [s \in Sockets |-> {}]
  /\ refusal = [s \in Sockets |-> None]
  /\ task = [s \in Sockets |-> Idle]
  /\ projects = [p \in Projects |-> "u1"]
  /\ invitations = [k \in Invitees \X Projects |-> [status |-> "accepted", role |-> "editor"]]
  /\ options = NoOptions
  /\ em = NoEmit
  /\ sent = <<>>
  /\ out = <<>>
  /\ startup = NoStartup
  /\ remote = {}
  /\ created = <<>>
  /\ calls = <<>>
  /\ log = <<>>
  /\ ops = <<>>

\* init goes through setupRedisAdapter's await only when the redis option is given and
\* REDIS_URL is set
AwaitsBroker == options.redis /\ startup.redisUrl # None

\* SocketIOManager.init up to its first await: creates the server; without a broker to
\* wait for it goes on to install the middleware and the connection handlers
InitServer ==
  /\ ~io
  /\ startup.pc = "new"
  /\ io' = TRUE
  /\ startup' = [startup EXCEPT !.pc = IF AwaitsBroker THEN "redis:ready" ELSE "done"]
  /\ out' = <<>>
  /\ UNCHANGED <<status, decoded, user, handlers, rooms, refusal, task, storeVars, emitVars,
                  remote>>

\* a client of setupRedisAdapter reaches the broker and emits "ready"; against an
\* unreachable broker the retry strategy keeps it trying for ever
ClientReady(c) ==
  /\ startup.pc = "redis:ready"
  /\ startup.broker = "ready"
  /\ c \notin startup.ready
  /\ startup' = [startup EXCEPT !.ready = @ \cup {c}]
  /\ out' = <<>>
  /\ UNCHANGED <<io, status, decoded, user, handlers, rooms, refusal, task, storeVars,
                  emitVars, remote>>

\* a wait that the first "ready" ends
BrokerSettledByAny(ready) == ready # {}

\* Promise.all of the two clients' once("ready"): settles when both have emitted it,
\* and nothing rejects it
BrokerSettled(ready) == ready = Clients

\* init after setupRedisAdapter's await: installs the adapter, the middleware and the
\* connection handlers
RedisReady ==
  /\ startup.pc = "redis:ready"
  /\ BrokerSettled(startup.ready)
  /\ startup' = [startup EXCEPT !.pc = "done", !.adapter = TRUE]
  /\ out' = <<>>
  /\ UNCHANGED <<io, status, decoded, user, handlers, rooms, refusal, task, storeVars,
                  emitVars, remote>>

\* a connection arrives while init is suspended: the server exists, no middleware and
\* no connection callback are installed yet
ConnectNoMiddleware(s) ==
  /\ io
  /\ startup.pc = "redis:ready"
  /\ status[s] = "idle"
  /\ status' = [status EXCEPT ![s] = "connected"]
  /\ out' = <<>>
  /\ UNCHANGED <<io, decoded, user, handlers, rooms, refusal, task, storeVars, emitVars,
                  startup, remote>>

\* ---------------------------------------------------------- handshake
\* a verification that checks the signature only
JwtVerifyNoExpiry(token, secret) == token.signedWith = secret

\* jwt.verify(token, payload.secret): signature and expiry
JwtVerify(token, secret) == token.signedWith = secret /\ ~token.expired

\* next(err): the connection is refused, no connection event
Refuse(s, message) ==
  /\ status' = [status EXCEPT ![s] = "refused"]
  /\ refusal' = [refusal EXCEPT ![s] = message]

\* the middleware up to its await
Handshake(s, token) ==
  /\ io
  /\ startup.pc = "done"
  /\ status[s] = "idle"
  /\ out' = <<>>
  /\ IF token = NoToken
       THEN /\ Refuse(s, "Authentication token required")
            /\ UNCHANGED decoded
     ELSE IF ~JwtVerify(token, PayloadSecret)
       THEN /\ Refuse(s, "Invalid authentication token")
            /\ UNCHANGED decoded
     ELSE /\ status' = [status EXCEPT ![s] = "auth"]
          /\ decoded' = [decoded EXCEPT ![s] =
               [token |-> token, id |-> token.id,
                collection |-> IF token.collection = None THEN "users"
                               ELSE token.collection]]
          /\ UNCHANGED refusal
  /\ UNCHANGED <<io, user, handlers, rooms, task, storeVars, emitVars, startup, remote>>

\* payload.findByID({collection, id}) for the handshake: a document, nothing, or a throw
FindUserOutcomes(d) ==
  IF d.collection = "users" /\ d.id \in DOMAIN UserDocs
    THEN {[kind |-> "doc", doc |-> UserDocs[d.id]], [kind |-> "throw"]}
    ELSE {[kind |-> "null"], [kind |-> "throw"]}

\* a middleware that does not attach the identity to socket.user
UserInfoDropped(userDoc, d) == NoUser

\* the identity the middleware attaches
UserInfo(userDoc, d) ==
  [id |-> userDoc.id, email |-> userDoc.email,
   collection |-> d.collection, role |-> userDoc.role]

\* a notification handler set that leaves the connection out of its identity room
NotificationRoomsNone(u) == {}

\* notificationHandlers, as it is installed: socket.join(`user:${socket.user.id}:notifications`)
NotificationRooms(u) == {IdentityRoom(u.id)}

\* the rooms the connection callback puts the new connection in: none by itself; what
\* options.onSocketConnection joins when it is given
OnSocketConnection(u) ==
  IF options.onSocketConnection = None THEN {} ELSE NotificationRooms(u)

\* the middleware after its await, and the connection callback on next()
AuthLookup(s, res) ==
  /\ status[s] = "auth"
  /\ res \in FindUserOutcomes(decoded[s])
  /\ out' = <<>>
  /\ decoded' = [decoded EXCEPT ![s] = NoDecoded]
  /\ IF res.kind = "throw"
       THEN /\ Refuse(s, "Invalid authentication token")
            /\ UNCHANGED <<user, handlers, rooms>>
     ELSE IF res.kind = "null"
       THEN /\ Refuse(s, "User not found")
            /\ UNCHANGED <<user, handlers, rooms>>
     ELSE /\ user' = [user EXCEPT ![s] = UserInfo(res.doc, decoded[s])]
          /\ status' = [status EXCEPT ![s] = "connected"]
          /\ handlers' = [handlers EXCEPT ![s] = TRUE]
          /\ rooms' = [rooms EXCEPT ![s] = @ \cup OnSocketConnection(user'[s])]
          /\ UNCHANGED refusal
  /\ UNCHANGED <<io, task, storeVars, emitVars, startup, remote>>

\* ------------------------------------------------ collection handlers
\* a handler of socket s can run: it was registered and the socket is open
CanHandle(s) == handlers[s] /\ Connected(s)

\* "subscribe": joins collection:<c> for each name given
Subscribe(s, cs) ==
  /\ CanHandle(s)
  /\ rooms' = [rooms EXCEPT ![s] = @ \cup {CollectionRoom(c) : c \in cs}]
  /\ out' = <<>>
  /\ UNCHANGED <<gateVars, task, storeVars, emitVars>>

\* "unsubscribe"
Unsubscribe(s, cs) ==
  /\ CanHandle(s)
  /\ rooms' = [rooms EXCEPT ![s] = @ \ {CollectionRoom(c) : c \in cs}]
  /\ out' = <<>>
  /\ UNCHANGED <<gateVars, task, storeVars, emitVars>>

\* "join-collection"
JoinCollection(s, c) ==
  /\ CanHandle(s)
  /\ rooms' = [rooms EXCEPT ![s] = @ \cup {CollectionRoom(c)}]
  /\ out' = <<>>
  /\ UNCHANGED <<gateVars, task, storeVars, emitVars>>

\* ------------------------------------------------------ document store
\* payload.findByID({collection: "projects", id, depth}): the document, or a throw
\* (not found, or a failure of the store).  project.user is the owner's id at
\* depth 0 and the populated owner document otherwise.
FindProjectOutcomes(p, depth) ==
  {[kind |-> "throw"]} \cup
  IF p \in Projects /\ projects[p] # None
    THEN {[kind |-> "doc",
           doc |-> [id |-> p,
                    user |-> IF depth = 0
                               THEN [type |-> "string", value |-> projects[p]]
                               ELSE [type |-> "object", id |-> projects[p]]]]}
    ELSE {}

\* an owner id read only from an unpopulated project.user
ProjectOwnerIdString(project) ==
  IF project.user.type = "string" THEN project.user.value ELSE None

\* typeof project.user === "string" ? project.user : project.user?.id
ProjectOwnerId(project) ==
  IF project.user.type = "string" THEN project.user.value ELSE project.user.id

\* a where clause without the role condition
InvitationWhereAccepted(doc) == doc.status = "accepted"

\* the where clause of join-project's payload.find
InvitationWhere(doc) == doc.status = "accepted" /\ doc.role = "editor"

\* payload.find on projectInvitations with that where clause and limit 1
FindInvitationOutcomes(uid, p) ==
  {[kind |-> "throw"]} \cup
  {[kind |-> "docs",
    docs |-> IF <<uid, p>> \in DOMAIN invitations /\ InvitationWhere(invitations[<<uid, p>>])
               THEN <<invitations[<<uid, p>>]>>
               ELSE <<>>]}

\* the host changes a project's owner, or deletes the project
SetOwner(p, o) ==
  /\ projects[p] # o
  /\ projects' = [projects EXCEPT ![p] = o]
  /\ out' = <<>>
  /\ UNCHANGED <<gateVars, rooms, task, invitations, created, ops, emitVars>>

\* the host creates, changes or deletes an invitation
SetInvitation(u, p, d) ==
  /\ invitations[<<u, p>>] # d
  /\ invitations' = [invitations EXCEPT ![<<u, p>>] = d]
  /\ out' = <<>>
  /\ UNCHANGED <<gateVars, rooms, task, projects, created, ops, emitVars>>

\* ----------------------------------------------------- project handlers
InFlight == {s \in Sockets : task[s].pc # "idle"}
CanStart(s) == CanHandle(s) /\ task[s] = Idle /\ Cardinality(InFlight) < MaxInFlight

\* "join-project" up to its first await (p = None: no projectId given)
JoinProject(s, p) ==
  /\ CanStart(s)
  /\ task' = [task EXCEPT ![s] =
       IF p = None THEN Idle ELSE Task("join:findByID", p, None, FALSE, {})]
  /\ out' = <<>>
  /\ UNCHANGED <<gateVars, rooms, storeVars, emitVars>>

\* a join-project without its catch: a failed lookup ends the handler and tells nobody
JoinFindByIDUncaught(s, res) ==
  /\ task[s].pc = "join:findByID"
  /\ res \in FindProjectOutcomes(task[s].projectId, 0)
  /\ task' = [task EXCEPT ![s] =
       IF res.kind = "throw" THEN Idle
       ELSE Task("join:find", task[s].projectId, None,
                 user[s].id = ProjectOwnerId(res.doc), {})]
  /\ out' = <<>>
  /\ UNCHANGED <<gateVars, rooms, storeVars, emitVars>>

\* join-project: findByID returned; the owner test, then payload.find is called
JoinFindByID(s, res) ==
  /\ task[s].pc = "join:findByID"
  /\ res \in FindProjectOutcomes(task[s].projectId, 0)
  /\ IF res.kind = "throw"
       THEN /\ task' = [task EXCEPT ![s] = Idle]
            /\ out' = SocketEmit(s, "join-project-error",
                                 "Failed to verify project permissions")
       ELSE /\ task' = [task EXCEPT ![s] =
                 Task("join:find", task[s].projectId, None,
                      user[s].id = ProjectOwnerId(res.doc), {})]
            /\ out' = <<>>
  /\ UNCHANGED <<gateVars, rooms, storeVars, emitVars>>

\* a test that takes any query result for an invitation
HasEditorInviteAlways(invitation) == TRUE

\* hasEditorInvite
HasEditorInvite(invitation) == Len(invitation.docs) > 0

\* join-project: payload.find returned; the permission decision and socket.join
JoinFind(s, res) ==
  /\ task[s].pc = "join:find"
  /\ res \in FindInvitationOutcomes(user[s].id, task[s].projectId)
  /\ IF res.kind = "throw"
       THEN /\ task' = [task EXCEPT ![s] = Idle]
            /\ out' = SocketEmit(s, "join-project-error",
                                 "Failed to verify project permissions")
            /\ UNCHANGED rooms
     ELSE IF ~task[s].isOwner /\ ~HasEditorInvite(res)
       THEN /\ task' = [task EXCEPT ![s] = Idle]
            /\ out' = SocketEmit(s, "join-project-error",
                                 "You need editor access to join this project room")
            /\ UNCHANGED rooms
     ELSE /\ rooms' = [rooms EXCEPT ![s] = @ \cup {ProjectRoom(task[s].projectId)}]
          /\ task' = [task EXCEPT ![s] =
               Task("join:joined", task[s].projectId, None, task[s].isOwner, {})]
          /\ out' = <<>>
  /\ UNCHANGED <<gateVars, storeVars, emitVars>>

\* join-project: socket.join resolved; fetchSockets is called
JoinJoined(s) ==
  /\ task[s].pc = "join:joined"
  /\ task' = [task EXCEPT ![s] =
       Task("join:fetchSockets", task[s].projectId, None, task[s].isOwner,
            FetchSockets(ProjectRoom(task[s].projectId)))]
  /\ out' = <<>>
  /\ UNCHANGED <<gateVars, rooms, storeVars, emitVars>>

\* {id, email} of a socket's user
Presence(s) == [id |-> user[s].id, email |-> user[s].email]

\* a list that keeps one entry per socket
UniqueUsersKept(q) == q

\* Array.from(new Map(activeUsers.map(u => [u.id, u])).values()): one entry per id
RECURSIVE UniqueUsers(_)
UniqueUsers(q) ==
  IF q = <<>> THEN <<>>
  ELSE LET first == Head(q)
           others == SelectSeq(Tail(q), LAMBDA u : u.id # first.id)
       IN <<first>> \o UniqueUsers(others)

\* the active users of a fetched socket list
ActiveUsers(S) ==
  LET q == SetToSeq({x \in S : SocketUser(x) # NoUser})
  IN UniqueUsers([i \in 1..Len(q) |-> Presence(q[i])])

\* join-project: fetchSockets returned; the list to the joiner, the notice to the others
JoinFetched(s) ==
  /\ task[s].pc = "join:fetchSockets"
  /\ out' = SocketEmit(s, "project:active-users", ActiveUsers(task[s].sockets))
            \o SocketToRoomEmit(s, ProjectRoom(task[s].projectId),
                                "project:user-joined", Presence(s))
  /\ task' = [task EXCEPT ![s] = Idle]
  /\ UNCHANGED <<gateVars, rooms, storeVars, emitVars>>

\* a leave that removes nothing
LeaveNot(m, s, r) == m

\* socket.leave(room): the membership index m without s in r
Leave(m, s, r) == [m EXCEPT ![s] = @ \ {r}]

\* a leave-project that only members of the room may take
LeaveProjectMembersOnly(s, p) ==
  /\ CanHandle(s)
  /\ p # None
  /\ ProjectRoom(p) \in rooms[s]
  /\ rooms' = Leave(rooms, s, ProjectRoom(p))
  /\ out' = Broadcast(InRoom(ProjectRoom(p)) \ {s}, "project:user-left", user[s].id)
  /\ UNCHANGED <<gateVars, task, storeVars, emitVars>>

\* "leave-project" (p = None: no projectId given)
LeaveProject(s, p) ==
  /\ CanHandle(s)
  /\ IF p = None
       THEN /\ UNCHANGED rooms
            /\ out' = <<>>
       ELSE /\ rooms' = Leave(rooms, s, ProjectRoom(p))
            /\ out' = Broadcast(InRoom(ProjectRoom(p)) \ {s},
                                "project:user-left", user[s].id)
  /\ UNCHANGED <<gateVars, task, storeVars, emitVars>>

\* "kick-user" up to its first await (None: field not given)
KickUser(s, p, u) ==
  /\ CanStart(s)
  /\ task' = [task EXCEPT ![s] =
       IF p = None \/ u = None THEN Idle ELSE Task("kick:findByID", p, u, FALSE, {})]
  /\ out' = <<>>
  /\ UNCHANGED <<gateVars, rooms, storeVars, emitVars>>

\* an owner test that lets every caller through
KickerIsAnyone(u, project) == TRUE

\* kick-user's owner test: socket.user.id === projectOwnerId
KickerIsOwner(u, project) == u.id = ProjectOwnerId(project)

\* kick-user: findByID returned; the owner test, then fetchSockets is called
KickFindByID(s, res) ==
  /\ task[s].pc = "kick:findByID"
  /\ res \in FindProjectOutcomes(task[s].projectId, 2)
  /\ IF res.kind = "throw"
       THEN /\ task' = [task EXCEPT ![s] = Idle]
            /\ out' = SocketEmit(s, "kick-error", "Failed to kick user")
     ELSE IF ~KickerIsOwner(user[s], res.doc)
       THEN /\ task' = [task EXCEPT ![s] = Idle]
            /\ out' = SocketEmit(s, "kick-error", "Only the project owner can kick users")
     ELSE /\ task' = [task EXCEPT ![s] =
               Task("kick:fetchSockets", task[s].projectId, task[s].userId, TRUE,
                    FetchSockets(ProjectRoom(task[s].projectId)))]
          /\ out' = <<>>
  /\ UNCHANGED <<gateVars, rooms, storeVars, emitVars>>

\* a loop that takes every listed socket for one of userId
KickTargetsEveryone(S, userId) == S

\* a loop that stops at the first socket of userId
KickTargetsFirst(S, userId) ==
  LET T == {x \in S : SocketUser(x) # NoUser /\ SocketUser(x).id = userId}
  IN {x \in T : \A y \in T : x <= y}

\* the fetched sockets the loop kicks: those whose user is userId
KickTargets(S, userId) ==
  {x \in S : SocketUser(x) # NoUser /\ SocketUser(x).id = userId}

\* kick-user: fetchSockets returned; the loop over the room and the notices
KickFetched(s) ==
  /\ task[s].pc = "kick:fetchSockets"
  /\ LET room == ProjectRoom(task[s].projectId)
         targets == KickTargets(task[s].sockets, task[s].userId)
         kicked == targets # {}
         left == [x \in Sockets |-> IF x \in targets THEN rooms[x] \ {room} ELSE rooms[x]]
         remaining == {x \in Sockets : Connected(x) /\ room \in left[x]} \ {s}
     IN /\ rooms' = left
        /\ out' = Broadcast({x \in targets : Connected(x)}, "kicked-from-project",
                            task[s].projectId)
                  \o (IF kicked
                        THEN Broadcast(remaining, "project:user-left", task[s].userId)
                             \o SocketEmit(s, "kick-success", task[s].userId)
                        ELSE SocketEmit(s, "kick-error", "User not found in project"))
  /\ task' = [task EXCEPT ![s] = Idle]
  /\ UNCHANGED <<gateVars, storeVars, emitVars>>

\* the "disconnect" handler's loop over Array.from(socket.rooms)
RECURSIVE DisconnectNotices(_, _)
DisconnectNotices(s, rs) ==
  IF rs = {} THEN <<>>
  ELSE LET room == CHOOSE r \in rs : TRUE
       IN (IF room[1] = "project" /\ user[s] # NoUser
             THEN SocketToRoomEmit(s, room, "project:user-left", user[s].id)
             ELSE <<>>)
          \o DisconnectNotices(s, rs \ {room})

\* the transport closes: Socket.IO leaves every room of the socket, then fires
\* "disconnect", whose handler walks what socket.rooms then holds
Disconnect(s) ==
  /\ Connected(s)
  /\ rooms' = [rooms EXCEPT ![s] = {}]
  /\ out' = DisconnectNotices(s, rooms'[s])
  /\ status' = [status EXCEPT ![s] = "closed"]
  /\ UNCHANGED <<io, decoded, user, handlers, refusal, task, storeVars, emitVars,
                  startup, remote>>

\* ---------------------------------------- handlers of onSocketConnection
\* the message a client sends along (None: field not given)
Message == "hello"
ChatRooms == {"r1"}

\* a handler installed by options.onSocketConnection can run for socket s
CustomCanHandle(s) == CanHandle(s) /\ options.onSocketConnection # None

\* socket.emit("error", {message})
ErrorEvent(s, message) == SocketEmit(s, "error", message)

\* payload.create: the stored document, or a throw
CreateOutcomes == {"doc", "throw"}

\* "send-message" up to its await (None: field not given)
SendMessage(s, roomId, message) ==
  /\ CustomCanHandle(s)
  /\ task[s] = Idle
  /\ IF roomId = None \/ message = None
       THEN /\ out' = ErrorEvent(s, "Room ID and message are required")
            /\ UNCHANGED task
       ELSE /\ Cardinality(InFlight) < MaxInFlight
            /\ Len(created) < MaxCreated
            /\ task' = [task EXCEPT ![s] = Task("message:create", roomId, None, FALSE, {})]
            /\ out' = <<>>
  /\ UNCHANGED <<gateVars, rooms, storeVars, emitVars>>

\* send-message: payload.create returned; the broadcast to the chat room
MessageCreated(s, res) ==
  /\ task[s].pc = "message:create"
  /\ res \in CreateOutcomes
  /\ IF res = "throw"
       THEN /\ out' = SocketEmit(s, "send-message-error", "Failed to send message")
            /\ UNCHANGED created
       ELSE /\ created' = Append(created, [collection |-> "messages",
                                           target |-> task[s].projectId,
                                           user |-> user[s].id])
            /\ out' = RoomEmit(ChatRoom(task[s].projectId), "new-message",
                               [user |-> user[s].id, message |-> Message])
  /\ task' = [task EXCEPT ![s] = Idle]
  /\ UNCHANGED <<gateVars, rooms, projects, invitations, ops, emitVars>>

\* "send-notification" up to its await (None: field not given)
SendNotification(s, userId, message) ==
  /\ CustomCanHandle(s)
  /\ task[s] = Idle
  /\ IF userId = None \/ message = None
       THEN /\ out' = ErrorEvent(s, "User ID and message are required")
            /\ UNCHANGED task
       ELSE /\ Cardinality(InFlight) < MaxInFlight
            /\ Len(created) < MaxCreated
            /\ task' = [task EXCEPT ![s] =
                 Task("notification:create", None, userId, FALSE, {})]
            /\ out' = <<>>
  /\ UNCHANGED <<gateVars, rooms, storeVars, emitVars>>

\* send-notification: payload.create returned; the delivery to the identity room
NotificationCreated(s, res) ==
  /\ task[s].pc = "notification:create"
  /\ res \in CreateOutcomes
  /\ IF res = "throw"
       THEN /\ out' = SocketEmit(s, "send-notification-error", "Failed to send notification")
            /\ UNCHANGED created
       ELSE /\ created' = Append(created, [collection |-> "notifications",
                                           target |-> task[s].userId,
                                           user |-> user[s].id])
            /\ out' = RoomEmit(IdentityRoom(task[s].userId), "new-notification", Message)
  /\ task' = [task EXCEPT ![s] = Idle]
  /\ UNCHANGED <<gateVars, rooms, projects, invitations, ops, emitVars>>

\* a role test that every identity passes
IsAdminAnyone(u) == TRUE

\* socket.user.role === "admin"
IsAdmin(u) == u.role = "admin"

\* "broadcast-announcement" (None: no message given)
BroadcastAnnouncement(s, message) ==
  /\ CustomCanHandle(s)
  /\ out' = IF message = None THEN ErrorEvent(s, "Message is required")
            ELSE IF ~IsAdmin(user[s])
              THEN ErrorEvent(s, "Only admins can broadcast announcements")
            ELSE IoEmit("announcement", [message |-> message, from |-> user[s].email])
  /\ UNCHANGED <<gateVars, rooms, task, storeVars, emitVars>>

\* ------------------------------------------------------- other instance
\* the other instance runs its own handlers for its connections: one of them joins a
\* room there, and the adapter shows the membership to every instance
RemoteJoin(x, r) ==
  /\ startup.adapter
  /\ x \in remote
  /\ Connected(x)
  /\ r \notin rooms[x]
  /\ rooms' = [rooms EXCEPT ![x] = @ \cup {r}]
  /\ out' = IF r[1] = "project"
              THEN SocketToRoomEmit(x, r, "project:user-joined", Presence(x))
              ELSE <<>>
  /\ UNCHANGED <<gateVars, task, storeVars, emitVars>>

\* ------------------------------------------------------------ emitEvent
\* a filter whose answer is always yes
ShouldEmitIgnored(f, event) == TRUE

\* options.shouldEmit(event): publishedOnly passes the events of published documents,
\* authored those whose document names its author
ShouldEmit(f, event) ==
  IF f = "publishedOnly" THEN event.doc.status = "published"
  ELSE IF f = "authored" THEN event.doc.author # None
  ELSE TRUE

\* options.transformEvent(event)
TransformEvent(f, event) ==
  IF f = "hideAuthor" /\ event.doc # NoDoc
    THEN [event EXCEPT !.doc = [@ EXCEPT !.author = None]]
    ELSE event

\* a collection's authorization handler: an admin sees every event; otherwise the
\* document is published or the user is its author; without a document it throws
Policy(u, event) ==
  IF u.role = "admin" THEN "allow"
  ELSE IF event.doc = NoDoc THEN "throw"
  ELSE IF event.doc.status = "published" \/ u.id = event.doc.author THEN "allow"
  ELSE "deny"

\* a filter that is handed what the transform has made of the event
FilterArgumentTransformed(event, finalEvent) == finalEvent

\* what emitEvent hands the filter: the event as it was called with, before any
\* transform
FilterArgument(event, finalEvent) == event

\* a fanout that does not look at the handler's answer
IsAuthorizedIgnored(u, event) == TRUE

\* isAuthorized as emitEvent tests it
IsAuthorized(u, event) == Policy(u, event) = "allow"

PayloadEvent == "payload:event"
PayloadEventAll == "payload:event:all"

\* emitEvent's last statement: io.emit("payload:event:all", finalEvent)
EmitAll(finalEvent) == IoEmit(PayloadEventAll, finalEvent)

\* emitEvent up to its first await
EmitEvent(event) ==
  /\ em.pc \in {"idle", "done", "failed"}
  /\ em.n < MaxEmits
  /\ LET room == CollectionRoom(event.collection)
         finalEvent == IF options.transformEvent # None
                         THEN TransformEvent(options.transformEvent, event)
                         ELSE event
         Done(fe) == Emit("done", em.n + 1, event, fe, <<>>, 0, InRoom(room))
     IN IF ~io
          THEN /\ em' = Done(NoEvent)
               /\ out' = <<>>
        ELSE IF /\ options.shouldEmit # None
                /\ ~ShouldEmit(options.shouldEmit, FilterArgument(event, finalEvent))
          THEN /\ em' = Done(NoEvent)
               /\ out' = <<>>
        ELSE IF options.authorize.present
          THEN IF event.collection \in options.authorize.handlers
                 THEN /\ \E q \in Orders(FetchSockets(room)) :
                           em' = Emit("fetchSockets", em.n + 1, event, finalEvent,
                                      q, 0, InRoom(room))
                      /\ out' = <<>>
                 ELSE /\ em' = Done(finalEvent)
                      /\ out' = EmitAll(finalEvent)
        ELSE /\ em' = Done(finalEvent)
             /\ out' = RoomEmit(room, PayloadEvent, finalEvent) \o EmitAll(finalEvent)
  /\ sent' = out'
  /\ UNCHANGED <<gateVars, rooms, task, storeVars, options, calls, log>>

\* emitEvent: fetchSockets returned; the handler is called for the first socket
EmitFetched ==
  /\ em.pc = "fetchSockets"
  /\ IF em.sockets = <<>>
       THEN /\ em' = [em EXCEPT !.pc = "done"]
            /\ out' = EmitAll(em.finalEvent)
       ELSE /\ em' = [em EXCEPT !.pc = "policy", !.i = 1]
            /\ out' = <<>>
  /\ sent' = sent \o out'
  /\ UNCHANGED <<gateVars, rooms, task, storeVars, options, calls, log>>

\* emitEvent: the handler returned for socket i (a socket without a user property is
\* passed over); the delivery, then the next socket's call, or the all-events
\* broadcast after the last one
EmitAuthorized ==
  /\ em.pc = "policy"
  /\ LET s == em.sockets[em.i]
         u == SocketUser(s)
         deliver == IF u # NoUser /\ IsAuthorized(u, em.finalEvent)
                      THEN SocketEmit(s, PayloadEvent, em.finalEvent)
                      ELSE <<>>
     IN IF u # NoUser /\ Policy(u, em.finalEvent) = "throw"
          THEN /\ em' = [em EXCEPT !.pc = "failed"]
               /\ out' = <<>>
        ELSE IF em.i < Len(em.sockets)
          THEN /\ em' = [em EXCEPT !.i = @ + 1]
               /\ out' = deliver
          ELSE /\ em' = [em EXCEPT !.pc = "done"]
               /\ out' = deliver \o EmitAll(em.finalEvent)
  /\ sent' = sent \o out'
  /\ UNCHANGED <<gateVars, rooms, task, storeVars, options, calls, log>>

\* ------------------------------------------------------- document hooks
\* a check that lets every collection through
ShouldEmitForAnyCollection(c) == TRUE

\* shouldEmitForCollection: hooks are added to the included collections only; none
\* when the list is empty
ShouldEmitForCollection(c) ==
  IF options.includeCollections # {} THEN c \in options.includeCollections ELSE FALSE

\* the arguments Payload hands a hook: args.doc (NoDoc: absent), args.id and
\* args.req.user (NoUser: absent)
Args(doc, id, u) == [doc |-> doc, id |-> id, user |-> u]

\* a payload that keeps the document snapshot whatever the type
CreateEventPayloadWithDoc(type, c, args) ==
  [type |-> type,
   collection |-> c,
   id |-> IF args.doc.id # None THEN args.doc.id ELSE args.id,
   doc |-> args.doc,
   user |-> IF args.user # NoUser
              THEN [id |-> args.user.id, email |-> args.user.email,
                    collection |-> args.user.collection]
              ELSE NoUser]

\* createEventPayload(type, collection, args), without its timestamp
CreateEventPayload(type, c, args) ==
  [type |-> type,
   collection |-> c,
   id |-> IF args.doc.id # None THEN args.doc.id ELSE args.id,
   doc |-> IF type = "delete" THEN NoDoc ELSE args.doc,
   user |-> IF args.user # NoUser
              THEN [id |-> args.user.id, email |-> args.user.email,
                    collection |-> args.user.collection]
              ELSE NoUser]

\* a calling context that does not wait for the hook it has called
AwaitedNever == TRUE

\* the calling context awaits each hook, and the hook awaits emitEvent: a hook runs
\* when the calls made before it have ended
Awaited == \A k \in DOMAIN calls : calls[k].pc \in {"done", "failed"}

\* the messages q as call n's entries of the log
Stamp(q, n) ==
  [i \in 1..Len(q) |-> [to |-> q[i].to, ev |-> q[i].ev, data |-> q[i].data, n |-> n]]

\* emitEvent called by a hook, up to its first await; before init this.payload is
\* null, and the warning's this.payload!.logger throws
CallEmitEvent(event) ==
  LET n == Len(calls) + 1
      room == CollectionRoom(event.collection)
      finalEvent == IF options.transformEvent # None
                      THEN TransformEvent(options.transformEvent, event)
                      ELSE event
      Done(fe) == Emit("done", n, event, fe, <<>>, 0, InRoom(room))
  IN /\ IF ~io
          THEN /\ calls' = Append(calls, Emit("failed", n, event, NoEvent, <<>>, 0, {}))
               /\ out' = <<>>
        ELSE IF /\ options.shouldEmit # None
                /\ ~ShouldEmit(options.shouldEmit, FilterArgument(event, finalEvent))
          THEN /\ calls' = Append(calls, Done(NoEvent))
               /\ out' = <<>>
        ELSE IF options.authorize.present
          THEN IF event.collection \in options.authorize.handlers
                 THEN /\ \E q \in Orders(FetchSockets(room)) :
                           calls' = Append(calls, Emit("fetchSockets", n, event,
                                                       finalEvent, q, 0, InRoom(room)))
                      /\ out' = <<>>
                 ELSE /\ calls' = Append(calls, Done(finalEvent))
                      /\ out' = EmitAll(finalEvent)
        ELSE /\ calls' = Append(calls, Done(finalEvent))
             /\ out' = RoomEmit(room, PayloadEvent, finalEvent) \o EmitAll(finalEvent)
     /\ log' = log \o Stamp(out', n)

\* a hook without its try/catch: what emitEvent throws leaves the hook
HookOutcomeUncaught(pc) ==
  IF pc = "failed" THEN "threw" ELSE IF pc = "done" THEN "returned" ELSE "running"

\* how the hook stands when its emitEvent call is at pc: it awaits the call, and its
\* catch logs whatever the call throws; then it returns
HookOutcome(pc) == IF pc \in {"done", "failed"} THEN "returned" ELSE "running"

\* a document operation on collection c: the emitEvent call its hook made (0: none)
\* and how the hook stands (None: the plugin added no hook to the collection)
Op(c, operation, call, hook) ==
  [collection |-> c, operation |-> operation, call |-> call, hook |-> hook]

\* the operation that made call n, once the call has moved on
Settle(n) ==
  [k \in DOMAIN ops |->
     IF ops[k].call = n THEN [ops[k] EXCEPT !.hook = HookOutcome(calls'[n].pc)]
     ELSE ops[k]]

\* call n: fetchSockets returned; the handler is called for the first socket
CallFetched(n) ==
  /\ n \in DOMAIN calls
  /\ calls[n].pc = "fetchSockets"
  /\ IF calls[n].sockets = <<>>
       THEN /\ calls' = [calls EXCEPT ![n].pc = "done"]
            /\ out' = EmitAll(calls[n].finalEvent)
       ELSE /\ calls' = [calls EXCEPT ![n].pc = "policy", ![n].i = 1]
            /\ out' = <<>>
  /\ log' = log \o Stamp(out', n)
  /\ ops' = Settle(n)
  /\ UNCHANGED <<gateVars, rooms, task, projects, invitations, created, options, em, sent>>

\* call n: the handler returned for socket i (its user read from socket.data.user);
\* the delivery, then the next socket's call or the all-events broadcast
CallAuthorized(n) ==
  /\ n \in DOMAIN calls
  /\ calls[n].pc = "policy"
  /\ LET c == calls[n]
         s == c.sockets[c.i]
         deliver == IF IsAuthorized(user[s], c.finalEvent)
                      THEN SocketEmit(s, PayloadEvent, c.finalEvent)
                      ELSE <<>>
     IN IF Policy(user[s], c.finalEvent) = "throw"
          THEN /\ calls' = [calls EXCEPT ![n].pc = "failed"]
               /\ out' = <<>>
        ELSE IF c.i < Len(c.sockets)
          THEN /\ calls' = [calls EXCEPT ![n].i = @ + 1]
               /\ out' = deliver
          ELSE /\ calls' = [calls EXCEPT ![n].pc = "done"]
               /\ out' = deliver \o EmitAll(c.finalEvent)
  /\ log' = log \o Stamp(out', n)
  /\ ops' = Settle(n)
  /\ UNCHANGED <<gateVars, rooms, task, projects, invitations, created, options, em, sent>>

\* a hook that forwards every operation
ForwardsAnyOperation(operation) == TRUE

\* afterChange: only updates are forwarded, not creates
ForwardsOperation(operation) == operation = "update"

\* a change (create or update) of a document of collection c completes: Payload runs
\* the collection's afterChange hooks, the plugin's one up to emitEvent's first await
AfterChange(c, operation, args) ==
  /\ Len(ops) < MaxOps
  /\ Awaited
  /\ IF ~ShouldEmitForCollection(c)
       THEN /\ ops' = Append(ops, Op(c, operation, 0, None))
            /\ out' = <<>>
            /\ UNCHANGED <<calls, log>>
     ELSE IF ~ForwardsOperation(operation)
       THEN /\ ops' = Append(ops, Op(c, operation, 0, "returned"))
            /\ out' = <<>>
            /\ UNCHANGED <<calls, log>>
     ELSE /\ CallEmitEvent(CreateEventPayload("update", c, args))
          /\ ops' = Append(ops, Op(c, operation, Len(calls'),
                                   HookOutcome(calls'[Len(calls')].pc)))
  /\ UNCHANGED <<gateVars, rooms, task, projects, invitations, created, options, em, sent>>

\* a delete of a document of collection c completes: Payload runs the collection's
\* afterDelete hooks, the plugin's one up to emitEvent's first await
AfterDelete(c, args) ==
  /\ Len(ops) < MaxOps
  /\ Awaited
  /\ IF ~ShouldEmitForCollection(c)
       THEN /\ ops' = Append(ops, Op(c, "delete", 0, None))
            /\ out' = <<>>
            /\ UNCHANGED <<calls, log>>
       ELSE /\ CallEmitEvent(CreateEventPayload("delete", c, args))
            /\ ops' = Append(ops, Op(c, "delete", Len(calls'),
                                     HookOutcome(calls'[Len(calls')].pc)))
  /\ UNCHANGED <<gateVars, rooms, task, projects, invitations, created, options, em, sent>>

\* ------------------------------------------------------- specifications
\* from init on: the handshake and every handler, on a store that does not change
Next ==
  \/ InitServer
  \/ \E s \in 1..MaxConnections, t \in Tokens : Handshake(s, t)
  \/ \E s \in Sockets : \E res \in FindUserOutcomes(decoded[s]) : AuthLookup(s, res)
  \/ \E s \in Sockets, cs \in (SUBSET Collections) \ {{}} : Subscribe(s, cs)
  \/ \E s \in Sockets, cs \in (SUBSET Collections) \ {{}} : Unsubscribe(s, cs)
  \/ \E s \in Sockets, c \in Collections : JoinCollection(s, c)
  \/ \E s \in Sockets, p \in Projects \cup {None} : JoinProject(s, p)
  \/ \E s \in Sockets :
       \E res \in FindProjectOutcomes(task[s].projectId, 0) : JoinFindByID(s, res)
  \/ \E s \in Sockets :
       \E res \in FindInvitationOutcomes(user[s].id, task[s].projectId) : JoinFind(s, res)
  \/ \E s \in Sockets : JoinJoined(s)
  \/ \E s \in Sockets : JoinFetched(s)
  \/ \E s \in Sockets, p \in Projects \cup {None} : LeaveProject(s, p)
  \/ \E s \in Sockets, p \in Projects \cup {None}, u \in Members \cup {None} :
       KickUser(s, p, u)
  \/ \E s \in Sockets :
       \E res \in FindProjectOutcomes(task[s].projectId, 2) : KickFindByID(s, res)
  \/ \E s \in Sockets : KickFetched(s)
  \/ \E s \in Sockets : Disconnect(s)

Spec == Init /\ [][Next]_vars

\* the user each connection authenticated as, where the model starts after the handshakes
UserOf(s) == IF s = 1 THEN "u1" ELSE "u2"

\* init has run and every connection has completed its handshake
InitConnected(invitation, opts) ==
  /\ io = TRUE
  /\ status = [s \in Sockets |-> "connected"]
  /\ decoded = [s \in Sockets |-> NoDecoded]
  /\ user = [s \in Sockets |->
       UserInfo(UserDocs[UserOf(s)], [id |-> UserOf(s), collection |-> "users"])]
  /\ handlers = [s \in Sockets |-> TRUE]
  /\ rooms = [s \in Sockets |->
       IF opts.onSocketConnection = None THEN {}
       ELSE NotificationRooms([id |-> UserOf(s)])]
  /\ refusal = [s \in Sockets |-> None]
  /\ task = [s \in Sockets |-> Idle]
  /\ projects = [p \in Projects |-> "u1"]
  /\ invitations = [k \in Invitees \X Projects |-> invitation]
  /\ options = opts
  /\ em = NoEmit
  /\ sent = <<>>
  /\ out = <<>>
  /\ startup = Startup("done", None, "ready", {}, FALSE)
  /\ remote = {}
  /\ created = <<>>
  /\ calls = <<>>
  /\ log = <<>>
  /\ ops = <<>>

\* join-project and leave-project while the host changes owners and invitations
InitJoin == InitConnected(NoInvitation, NoOptions)

NextJoin ==
  \/ \E p \in Projects, o \in Members \cup {None} : SetOwner(p, o)
  \/ \E u \in Invitees, p \in Projects, d \in InvitationDocs : SetInvitation(u, p, d)
  \/ \E s \in Sockets, p \in Projects \cup {None} : JoinProject(s, p)
  \/ \E s \in Sockets :
       \E res \in FindProjectOutcomes(task[s].projectId, 0) : JoinFindByID(s, res)
  \/ \E s \in Sockets :
       \E res \in FindInvitationOutcomes(user[s].id, task[s].projectId) : JoinFind(s, res)
  \/ \E s \in Sockets : JoinJoined(s)
  \/ \E s \in Sockets : JoinFetched(s)
  \/ \E s \in Sockets, p \in Projects \cup {None} : LeaveProject(s, p)

SpecJoin == InitJoin /\ [][NextJoin]_vars

\* kick-user racing with joins, leaves and disconnects while the owner changes
InitKick == InitConnected([status |-> "accepted", role |-> "editor"], NoOptions)

NextKick ==
  \/ \E p \in Projects, o \in Members \cup {None} : SetOwner(p, o)
  \/ \E s \in Sockets, p \in Projects \cup {None} : JoinProject(s, p)
  \/ \E s \in Sockets :
       \E res \in FindProjectOutcomes(task[s].projectId, 0) : JoinFindByID(s, res)
  \/ \E s \in Sockets :
       \E res \in FindInvitationOutcomes(user[s].id, task[s].projectId) : JoinFind(s, res)
  \/ \E s \in Sockets : JoinJoined(s)
  \/ \E s \in Sockets : JoinFetched(s)
  \/ \E s \in Sockets, p \in Projects \cup {None} : LeaveProject(s, p)
  \/ \E s \in Sockets, p \in Projects \cup {None}, u \in Members \cup {None} :
       KickUser(s, p, u)
  \/ \E s \in Sockets :
       \E res \in FindProjectOutcomes(task[s].projectId, 2) : KickFindByID(s, res)
  \/ \E s \in Sockets : KickFetched(s)
  \/ \E s \in Sockets : Disconnect(s)

SpecKick == InitKick /\ [][NextKick]_vars

\* emitEvent under each configuration while connections subscribe, unsubscribe and close
InitEmit == \E opts \in OptionSets : InitConnected(NoInvitation, opts)

NextEmit ==
  \/ \E e \in Events : EmitEvent(e)
  \/ EmitFetched
  \/ EmitAuthorized
  \/ \E s \in Sockets, cs \in (SUBSET Collections) \ {{}} : Subscribe(s, cs)
  \/ \E s \in Sockets, cs \in (SUBSET Collections) \ {{}} : Unsubscribe(s, cs)
  \/ \E s \in Sockets, c \in Collections : JoinCollection(s, c)
  \/ \E s \in Sockets : Disconnect(s)

SpecEmit == InitEmit /\ [][NextEmit]_vars

\* ================================================================ claims
\* ---------------------------------------------------------------- C1
\* the token is there and verifies against payload.secret, and the document store
\* holds the user record it names
GoodToken(token) ==
  /\ token.kind = "jwt"
  /\ token.signedWith = PayloadSecret
  /\ ~token.expired
UserRecordExists(d) == d.collection = "users" /\ d.id \in DOMAIN UserDocs

\* how a handshake step may end for s
RefusedNow(s) ==
  status'[s] = "refused" /\ refusal'[s] # None /\ ~handlers'[s] /\ user'[s] = NoUser

HandlerCanRun(s) == handlers[s] \/ task[s] # Idle

\* C2: every connection whose handlers can run has an identity, and a connection's
\* identity is set once, by the handshake (from absent, as the handshake ends), and
\* no later step changes it.
C2_IdentitySetOnce ==
  /\ [](\A s \in Sockets : HandlerCanRun(s) => user[s] # NoUser)
  /\ [][\A s \in Sockets :
          user'[s] # user[s] =>
            (user[s] = NoUser /\ status[s] = "auth" /\ status'[s] = "connected")]_vars

\* a connection with an identity has had handlers run: it is in a collection room
\* and a project room, and a second connection has closed
C2_Witness ==
  \E a, b \in Sockets :
    /\ user[a] # NoUser /\ handlers[a]
    /\ \E c \in Collections : CollectionRoom(c) \in rooms[a]
    /\ \E p \in Projects : ProjectRoom(p) \in rooms[a]
    /\ status[b] = "closed" /\ user[b] # NoUser

\* ---------------------------------------------------------------- C3
\* the document store holds an accepted editor invitation for (u, p)
AcceptedEditor(u, p) ==
  /\ <<u, p>> \in DOMAIN invitations
  /\ invitations[<<u, p>>].status = "accepted"
  /\ invitations[<<u, p>>].role = "editor"

\* the store makes u the owner of p
StoredOwner(u, p) == p \in Projects /\ projects[p] = u

JoinLookupFailed(s) ==
  out' = <<Msg(s, "join-project-error", "Failed to verify project permissions")>>

\* C3 (as amended): on every join-project call the owner flag is what the store
\* says when the project lookup returns; when the invitation query returns, the
\* connection is added to the room iff that flag is set or the store then holds an
\* accepted editor invitation for (identity, project), whatever rooms the connection
\* is already in; a call whose lookup fails adds nothing; and a connection enters a
\* project room by no other step.
C3_JoinPermission ==
  [][\A s \in Sockets :
       LET p == task[s].projectId
           room == ProjectRoom(p)
           permitted == task[s].isOwner \/ AcceptedEditor(user[s].id, p)
       IN /\ (task[s].pc = "join:findByID" /\ task'[s].pc = "join:find") =>
               (task'[s].isOwner <=> StoredOwner(user[s].id, p))
          /\ (task[s].pc = "join:findByID" /\ task'[s].pc = "idle") =>
               (JoinLookupFailed(s) /\ rooms' = rooms)
          /\ (task[s].pc = "join:find" /\ task'[s] # task[s]) =>
               IF JoinLookupFailed(s)
                 THEN rooms' = rooms /\ task'[s] = Idle
                 ELSE /\ (task'[s].pc = "join:joined" /\ room \in rooms'[s]) <=> permitted
                      /\ ~permitted => (rooms' = rooms /\ task'[s] = Idle)
          /\ \A r \in rooms'[s] \ rooms[s] :
               r[1] = "project" => (task[s].pc = "join:find" /\ r = room)]_vars

\* a connection that joined earlier asks again after its invitation was revoked: the
\* call is denied
C3_Witness ==
  \E s \in Sockets :
    /\ ProjectRoom("p1") \in rooms[s]
    /\ ~StoredOwner(user[s].id, "p1") /\ ~AcceptedEditor(user[s].id, "p1")
    /\ out = <<Msg(s, "join-project-error",
                   "You need editor access to join this project room")>>

\* C3 as stated: every join-project call adds the connection iff the store makes the
\* caller the owner or holds an accepted editor invitation
C3_JoinIffPermitted ==
  [][\A s \in Sockets :
       LET p == task[s].projectId
       IN (task[s].pc \in {"join:findByID", "join:find"}
             /\ task'[s].pc \in {"idle", "join:joined"}) =>
            ((task'[s].pc = "join:joined" /\ ProjectRoom(p) \in rooms'[s])
               <=> (StoredOwner(user[s].id, p) \/ AcceptedEditor(user[s].id, p)))]_vars

\* ---------------------------------------------------------------- C4
\* the messages of a step are all ev messages to s, one if s is connected
OnlyToCaller(s, ev) ==
  /\ \A i \in 1..Len(out') : out'[i].to = s /\ out'[i].ev = ev
  /\ Connected(s) => Len(out') = 1

\* C4: when join-project's checks end for a caller who is neither the owner nor an
\* accepted editor, no connection's room membership changes, the caller gets a
\* join-project-error, and no other connection gets any message.
C4_DeniedJoin ==
  [][\A s \in Sockets :
       (/\ task[s].pc = "join:find"
        /\ task'[s] # task[s]
        /\ ~task[s].isOwner
        /\ ~AcceptedEditor(user[s].id, task[s].projectId)) =>
         /\ rooms' = rooms
         /\ task'[s] = Idle
         /\ OnlyToCaller(s, "join-project-error")]_vars

\* a caller outside the room was denied while another connection was in the room
C4_Witness ==
  \E s, x \in Sockets :
    /\ x # s
    /\ ProjectRoom("p1") \in rooms[x]
    /\ ProjectRoom("p1") \notin rooms[s]
    /\ out = <<Msg(s, "join-project-error",
                   "You need editor access to join this project room")>>

\* ---------------------------------------------------------------- C5
\* C5: when kick-user's project lookup ends for a caller the store does not make the
\* owner, no connection's room membership changes, the handler ends, and the only
\* message is a kick-error to the caller (no kicked-from-project, no user-left).
C5_NonOwnerKick ==
  [][\A s \in Sockets :
       (/\ task[s].pc = "kick:findByID"
        /\ task'[s] # task[s]
        /\ ~StoredOwner(user[s].id, task[s].projectId)) =>
         /\ rooms' = rooms
         /\ task'[s] = Idle
         /\ OnlyToCaller(s, "kick-error")]_vars

\* a caller who is not the owner was refused while a connection of another user was
\* in the room
C5_Witness ==
  \E s, x \in Sockets :
    /\ user[x].id # user[s].id
    /\ ProjectRoom("p1") \in rooms[x]
    /\ ~StoredOwner(user[s].id, "p1")
    /\ out = <<Msg(s, "kick-error", "Only the project owner can kick users")>>

\* ---------------------------------------------------------------- C6
\* the message ev went to s in the last step
Got(s, ev) == \E i \in 1..Len(out) : out[i].to = s /\ out[i].ev = ev
GetsNow(s, ev) == \E i \in 1..Len(out') : out'[i].to = s /\ out'[i].ev = ev

Transformed(event) ==
  IF options.transformEvent # None THEN TransformEvent(options.transformEvent, event)
  ELSE event

\* the authorize map has a handler for the collection of the emitted event
HandlerRegistered ==
  options.authorize.present /\ em.event.collection \in options.authorize.handlers

\* the sockets that emitEvent has sent ev to
Receivers(ev) == {sent[i].to : i \in {j \in 1..Len(sent) : sent[j].ev = ev}}

\* C7: with a handler registered for the event's collection, every payload:event
\* message of the call carries the transformed event and goes to a connection that
\* was in collection:<c> when emitEvent listed the room and for whose identity the
\* handler, given the transformed event, returned true.
C7_PolicyGate ==
  HandlerRegistered =>
    \A i \in 1..Len(sent) :
      sent[i].ev = PayloadEvent =>
        /\ sent[i].to \in em.members
        /\ Policy(user[sent[i].to], Transformed(em.event)) = "allow"
        /\ sent[i].data = Transformed(em.event)

\* the fanout is over: one member got the event, another, whom the handler denied,
\* did not
C7_Witness ==
  /\ HandlerRegistered
  /\ em.pc = "done"
  /\ \E a, b \in em.members :
       /\ a \in Receivers(PayloadEvent)
       /\ b \notin Receivers(PayloadEvent)
       /\ Policy(user[b], Transformed(em.event)) = "deny"

\* ---------------------------------------------------------------- C8
\* C8 as stated: with an authorize map that has no handler for the event's
\* collection, emitEvent sends the event to no connection
C8_FailClosed ==
  (/\ em.pc = "done"
   /\ options.authorize.present
   /\ em.event.collection \notin options.authorize.handlers) =>
    sent = <<>>

\* ---------------------------------------------------------------- C9
\* C9 as stated: once emitEvent is done, no message of the call went to a connection
\* whose identity the collection's handler denied
C9_DeniedGetsNothing ==
  (HandlerRegistered /\ em.pc = "done") =>
    \A i \in 1..Len(sent) :
      Policy(user[sent[i].to], Transformed(em.event)) # "deny"

\* --------------------------------------------------------------- C10
\* C10: without an authorize map, an emitEvent call that passes the filter sends
\* payload:event, once and carrying the transformed event, to exactly the connected
\* sockets that are in collection:<c> at that moment.
C10_NoAuthorizeRoom ==
  [][(/\ em'.n # em.n
      /\ io
      /\ ~options.authorize.present
      /\ (options.shouldEmit # None => ShouldEmit(options.shouldEmit, em'.event))) =>
       LET room == CollectionRoom(em'.event.collection)
           members == {s \in Sockets : status[s] = "connected" /\ room \in rooms[s]}
           idx == {i \in 1..Len(out') : out'[i].ev = PayloadEvent}
       IN /\ {out'[i].to : i \in idx} = members
          /\ Cardinality(idx) = Cardinality(members)
          /\ \A i \in idx : out'[i].data = Transformed(em'.event)
          /\ em'.pc = "done"]_vars

\* without an authorize map a member of the room got payload:event and a connected
\* socket outside the room did not
C10_Witness ==
  /\ ~options.authorize.present
  /\ em.pc = "done"
  /\ \E a, b \in Sockets :
       /\ a \in em.members /\ a \in Receivers(PayloadEvent)
       /\ b \notin em.members /\ Connected(b)
       /\ b \notin Receivers(PayloadEvent) /\ b \in Receivers(PayloadEventAll)

\* --------------------------------------------------------------- C11
\* a filter is configured and says no to the event: the document is not published
FilterRejects(event) ==
  options.shouldEmit = "publishedOnly" /\ event.doc.status # "published"

\* C11: an emitEvent call whose configured filter returns false sends nothing on any
\* channel, computes no transformed event, lists no room and calls no authorization
\* handler, and is over at once without an error; nothing is sent for it later.
C11_FilterDrops ==
  /\ [][(em'.n # em.n /\ io /\ FilterRejects(em'.event)) =>
          /\ out' = <<>>
          /\ sent' = <<>>
          /\ em'.pc = "done"
          /\ em'.finalEvent = NoEvent
          /\ em'.sockets = <<>>]_vars
  /\ []((em.n > 0 /\ FilterRejects(em.event)) => (sent = <<>> /\ em.pc = "done"))

\* a rejected event for a collection that has subscribers, under a configuration with
\* a transform and an authorization handler for that collection
C11_Witness ==
  /\ em.pc = "done"
  /\ FilterRejects(em.event)
  /\ em.members # {}
  /\ options.transformEvent # None
  /\ HandlerRegistered
  /\ sent = <<>>

\* --------------------------------------------------------------- C12
\* the handler's answer for socket s on the event of the call
Decision(s) == Policy(user[s], Transformed(em.event))

\* C12 as stated: once a fanout that passed the filter is over, however it ended, every connection that
\* was in the room when it was listed, is still connected and whose own decision is
\* allow has been sent payload:event, whatever the decisions of the others were
C12_FanoutIsolation ==
  (HandlerRegistered /\ ~FilterRejects(em.event) /\ em.pc \in {"done", "failed"}) =>
    \A s \in em.members :
      (Connected(s) /\ Decision(s) = "allow") => s \in Receivers(PayloadEvent)

\* the part of C12 that the source keeps: a fanout in which no handler call throws
\* skips the denied connections and delivers to every allowed one
C12_DenialDoesNotBlock ==
  (HandlerRegistered /\ ~FilterRejects(em.event) /\ em.pc = "done") =>
    \A s \in em.members :
      (Connected(s) /\ Decision(s) = "allow") => s \in Receivers(PayloadEvent)

\* --------------------------------------------------------------- C13
\* the user whose authorization lookups are slow: a handler call for a connection of
\* this user may stay pending for ever
SlowUser == "u2"

\* the pending handler call is for another user and returns
FastAuthorized ==
  /\ em.pc = "policy"
  /\ user[em.sockets[em.i]].id # SlowUser
  /\ EmitAuthorized

\* emitEvent with a handler for "posts", no filter and no transform
InitSlow ==
  InitConnected(NoInvitation,
                [NoOptions EXCEPT !.authorize = [present |-> TRUE, handlers |-> {"posts"}]])

\* every step of the fanout is taken in the end, except that a handler call for the
\* slow user need never return
SpecSlow ==
  InitSlow /\ [][NextEmit]_vars /\ WF_vars(EmitFetched) /\ WF_vars(FastAuthorized)

\* C13 as stated: a listed connection of another user whose decision is allow is sent
\* payload:event in the end (unless it closes or a handler call fails first), even
\* if a handler call for the slow user never returns
C13_SlowLookupDelaysOnlyItself ==
  \A s \in Sockets :
    (/\ HandlerRegistered
     /\ em.pc = "fetchSockets"
     /\ \E i \in 1..Len(em.sockets) : em.sockets[i] = s
     /\ user[s].id # SlowUser
     /\ Decision(s) = "allow")
      ~> (s \in Receivers(PayloadEvent) \/ ~Connected(s) \/ em.pc = "failed")

\* --------------------------------------------------------------- C14
\* the user-left notices of the last step that went to x for user id u
LeftNoticesNow(x, u) ==
  {i \in 1..Len(out') :
     out'[i].to = x /\ out'[i].ev = "project:user-left" /\ out'[i].data = u}

\* C14 as stated: when a connection closes, each remaining member of each project
\* room it was in is sent exactly one project:user-left notice with its identity id
C14_DisconnectNotices ==
  [][\A s \in Sockets :
       (status[s] = "connected" /\ status'[s] = "closed") =>
         \A p \in Projects :
           ProjectRoom(p) \in rooms[s] =>
             \A x \in InRoom(ProjectRoom(p)) \ {s} :
               Cardinality(LeftNoticesNow(x, user[s].id)) = 1]_vars

\* --------------------------------------------------------------- C15
\* the project:active-users lists sent in the last step / in this step
ActiveUsersLists == {out[i].data : i \in {j \in 1..Len(out) : out[j].ev = "project:active-users"}}
ActiveUsersListsNow ==
  {out'[i].data : i \in {j \in 1..Len(out') : out'[j].ev = "project:active-users"}}

SentNow(ev) == {i \in 1..Len(out') : out'[i].ev = ev}

\* C16: a join-project that passes its checks adds the caller to the project room;
\* when it ends, project:active-users goes to the caller and to nobody else, and
\* project:user-joined with the caller's {id, email} goes once to each other
\* connection then in the room and not to the caller; nothing else is sent.
C16_JoinSuccess ==
  [][\A s \in Sockets :
       LET room == ProjectRoom(task[s].projectId)
           others == {x \in Sockets : status[x] = "connected" /\ room \in rooms[x]} \ {s}
       IN /\ (task[s].pc = "join:find" /\ task'[s].pc = "join:joined") =>
               (room \in rooms'[s] /\ \A x \in Sockets \ {s} : rooms'[x] = rooms[x])
          /\ (task[s].pc = "join:fetchSockets" /\ task'[s] # task[s]) =>
               /\ task'[s] = Idle
               /\ rooms' = rooms
               /\ \A i \in SentNow("project:active-users") : out'[i].to = s
               /\ Connected(s) => Cardinality(SentNow("project:active-users")) = 1
               /\ {out'[i].to : i \in SentNow("project:user-joined")} = others
               /\ Cardinality(SentNow("project:user-joined")) = Cardinality(others)
               /\ \A i \in SentNow("project:user-joined") :
                    out'[i].data = [id |-> user[s].id, email |-> user[s].email]
               /\ \A i \in 1..Len(out') :
                    out'[i].ev \in {"project:active-users", "project:user-joined"}]_vars

\* a join has ended: the joiner is in the room and got the list, and another member
\* got the notice about the joiner
C16_Witness ==
  \E s, x \in Sockets :
    /\ x # s
    /\ ProjectRoom("p1") \in rooms[s] /\ ProjectRoom("p1") \in rooms[x]
    /\ Got(s, "project:active-users") /\ ~Got(s, "project:user-joined")
    /\ \E i \in 1..Len(out) :
         /\ out[i].to = x /\ out[i].ev = "project:user-joined"
         /\ out[i].data.id = user[s].id

\* --------------------------------------------------------------- C17
\* C17: leave-project needs no permission: every connection whose handlers are
\* registered can take it for any project at any time, member or not; after it the
\* caller is not in the project room, no other connection's rooms and no other room
\* of the caller have changed, and project:user-left with the caller's identity id
\* has gone once to each connection that remains in the room and not to the caller;
\* nothing else is sent.
C17_LeaveUnconditional ==
  /\ [](\A s \in Sockets, p \in Projects : CanHandle(s) => ENABLED LeaveProject(s, p))
  /\ [][\A s \in Sockets, p \in Projects :
          LeaveProject(s, p) =>
            LET room == ProjectRoom(p)
                remaining == {x \in Sockets : status'[x] = "connected" /\ room \in rooms'[x]}
            IN /\ room \notin rooms'[s]
               /\ rooms'[s] \cup {room} = rooms[s] \cup {room}
               /\ \A x \in Sockets \ {s} : rooms'[x] = rooms[x]
               /\ s \notin remaining
               /\ {out'[i].to : i \in 1..Len(out')} = remaining
               /\ Len(out') = Cardinality(remaining)
               /\ \A i \in 1..Len(out') :
                    out'[i].ev = "project:user-left" /\ out'[i].data = user[s].id]_vars

\* a member has just left: it is out of the room and a connection that is still in
\* the room got the notice with the leaver's id
C17_Witness ==
  \E s, x \in Sockets :
    /\ x # s
    /\ task[s] = Idle /\ task[x] = Idle
    /\ ProjectRoom("p1") \notin rooms[s] /\ ProjectRoom("p1") \in rooms[x]
    /\ out = <<Msg(x, "project:user-left", user[s].id)>>

\* --------------------------------------------------------------- C18
\* the membership after a leave-project by s taken right after this step
LeftRightAfter(s, room) == Leave(rooms', s, room)

\* C18 (as amended): when join-project adds s to a project room and s's leave-project
\* for that room follows at once, the membership is what it was before the join iff
\* s was not in the room before; if s was already in it, the leave takes s out, so
\* the room has lost s.  Either way no other connection and no other room of s is
\* affected.
C18_RoundTrip ==
  [][\A s \in Sockets :
       (task[s].pc = "join:find" /\ task'[s].pc = "join:joined") =>
         LET room == ProjectRoom(task[s].projectId)
             after == LeftRightAfter(s, room)
         IN /\ room \in rooms'[s]
            /\ (after = rooms) <=> (room \notin rooms[s])
            /\ room \notin after[s]
            /\ after[s] \cup {room} = rooms[s] \cup {room}
            /\ \A x \in Sockets \ {s} : after[x] = rooms[x]]_vars

\* a connection has been added to a room that another connection is in, and has not
\* yet gone on to list the room
C18_Witness ==
  \E s, x \in Sockets :
    /\ x # s
    /\ task[s].pc = "join:joined"
    /\ ProjectRoom(task[s].projectId) \in rooms[s] \cap rooms[x]

\* C18 as stated: a join-project followed at once by the same connection's
\* leave-project leaves every room's membership as it was before the join, whatever
\* the state before
C18_RoundTripAlways ==
  [][\A s \in Sockets :
       (task[s].pc = "join:find" /\ task'[s].pc = "join:joined") =>
         LeftRightAfter(s, ProjectRoom(task[s].projectId)) = rooms]_vars

GetsJoined(x, u) ==
  \E i \in 1..Len(out') :
    /\ out'[i].to = x /\ out'[i].ev = "project:user-joined"
    /\ out'[i].data.id = u
GetsLeft(x, u) ==
  \E i \in 1..Len(out') :
    /\ out'[i].to = x /\ out'[i].ev = "project:user-left"
    /\ out'[i].data = u

InitStart ==
  /\ io = FALSE
  /\ status = [s \in Sockets |-> "idle"]
  /\ decoded = [s \in Sockets |-> NoDecoded]
  /\ user = [s \in Sockets |-> NoUser]
  /\ handlers = [s \in Sockets |-> FALSE]
  /\ rooms = [s \in Sockets |-> {}]
  /\ refusal = [s \in Sockets |-> None]
  /\ task = [s \in Sockets |-> Idle]
  /\ projects = [p \in Projects |-> "u1"]
  /\ invitations = [k \in Invitees \X Projects |-> NoInvitation]
  /\ options = [NoOptions EXCEPT !.redis = TRUE]
  /\ em = NoEmit
  /\ sent = <<>>
  /\ out = <<>>
  /\ startup \in {Startup("new", url, broker, {}, FALSE) :
                     url \in {None, "redis://broker"}, broker \in {"ready", "unreachable"}}
  /\ remote = {}
  /\ created = <<>>
  /\ calls = <<>>
  /\ log = <<>>
  /\ ops = <<>>

NextStart ==
  \/ InitServer
  \/ \E c \in Clients : ClientReady(c)
  \/ RedisReady
  \/ \E s \in 1..MaxConnections : ConnectNoMiddleware(s)
  \/ \E s \in 1..MaxConnections, t \in Tokens : Handshake(s, t)
  \/ \E s \in Sockets : \E res \in FindUserOutcomes(decoded[s]) : AuthLookup(s, res)
  \/ \E s \in Sockets, c \in Collections : JoinCollection(s, c)
  \/ \E e \in Events : EmitEvent(e)
  \/ \E s \in Sockets : Disconnect(s)

\* init's steps are taken whenever they can be
SpecStart ==
  /\ InitStart /\ [][NextStart]_vars
  /\ WF_vars(InitServer) /\ WF_vars(\E c \in Clients : ClientReady(c)) /\ WF_vars(RedisReady)

\* C24: once init has been called with a broker URL configured, it has completed (the
\* middleware and the connection handlers are installed) or a step towards that can
\* be taken: it never waits for what cannot come, also when the broker never becomes
\* ready
C24_StartupCompletes ==
  (io /\ AwaitsBroker) =>
    \/ startup.pc = "done"
    \/ ENABLED RedisReady
    \/ \E c \in Clients : ENABLED ClientReady(c)

\* ------------------------------------------------ specification: callback
\* from init on, with and without the example handlers as options.onSocketConnection
InitCustom ==
  /\ io = FALSE
  /\ status = [s \in Sockets |-> "idle"]
  /\ decoded = [s \in Sockets |-> NoDecoded]
  /\ user = [s \in Sockets |-> NoUser]
  /\ handlers = [s \in Sockets |-> FALSE]
  /\ rooms = [s \in Sockets |-> {}]
  /\ refusal = [s \in Sockets |-> None]
  /\ task = [s \in Sockets |-> Idle]
  /\ projects = [p \in Projects |-> "u1"]
  /\ invitations = [k \in Invitees \X Projects |-> NoInvitation]
  /\ options \in {[NoOptions EXCEPT !.onSocketConnection = f] : f \in {None, "examples"}}
  /\ em = NoEmit
  /\ sent = <<>>
  /\ out = <<>>
  /\ startup = NoStartup
  /\ remote = {}
  /\ created = <<>>
  /\ calls = <<>>
  /\ log = <<>>
  /\ ops = <<>>

\* the handshake, the example handlers, and the project handlers called without a
\* required field
NextCustom ==
  \/ InitServer
  \/ \E s \in 1..MaxConnections, t \in Tokens : Handshake(s, t)
  \/ \E s \in Sockets : \E res \in FindUserOutcomes(decoded[s]) : AuthLookup(s, res)
  \/ \E s \in Sockets, r \in ChatRooms \cup {None}, m \in {Message, None} :
       SendMessage(s, r, m)
  \/ \E s \in Sockets, res \in CreateOutcomes : MessageCreated(s, res)
  \/ \E s \in Sockets, u \in Members \cup {None}, m \in {Message, None} :
       SendNotification(s, u, m)
  \/ \E s \in Sockets, res \in CreateOutcomes : NotificationCreated(s, res)
  \/ \E s \in Sockets, m \in {Message, None} : BroadcastAnnouncement(s, m)
  \/ \E s \in Sockets : JoinProject(s, None)
  \/ \E s \in Sockets : LeaveProject(s, None)
  \/ \E s \in Sockets, p \in Projects \cup {None}, u \in Members \cup {None} :
       (p = None \/ u = None) /\ KickUser(s, p, u)
  \/ \E s \in Sockets : Disconnect(s)

SpecCustom == InitCustom /\ [][NextCustom]_vars

\* ---------------------------------------------------------------- C21
\* C21 (amended): a connection whose handlers can run is in its identity room
\* user:<id>:notifications exactly when the example handlers were given as
\* options.onSocketConnection; the manager by itself joins it to no identity room
C21_IdentityRoomIfInstalled ==
  \A s \in Sockets :
    CanHandle(s) =>
      (IdentityRoom(user[s].id) \in rooms[s] <=> options.onSocketConnection # None)

\* a connection that has completed the handshake, with the callback installed, sits in
\* its identity room while another one was refused
C21_Witness ==
  /\ options.onSocketConnection = "examples"
  /\ \E s, x \in Sockets :
       /\ CanHandle(s)
       /\ user[s].id = "u2"
       /\ rooms[s] = {IdentityRoom("u2")}
       /\ status[x] = "refused"

\* C21 as stated: every connection that has completed the handshake is in its identity
\* room before any of its messages is handled
C21_IdentityRoomAutoJoin ==
  \A s \in Sockets : CanHandle(s) => IdentityRoom(user[s].id) \in rooms[s]

\* ---------------------------------------------------------------- C22
\* the emitEvent call ends in this step (it returns, or a handler's throw ends it)
EmitEnds == em'.pc \in {"done", "failed"} /\ (em'.pc # em.pc \/ em'.n # em.n)

\* C22: when an emitEvent call ends for an event that passed the filter, every
\* connected client has been sent the transformed event on payload:event:all,
\* whatever rooms it is in and whatever the authorization handlers are or decided
C22_AllEventsChannel ==
  [][(EmitEnds /\ io /\ ~FilterRejects(em'.event)) =>
       \A x \in Sockets :
         Connected(x) =>
           \E i \in DOMAIN out' :
             out'[i] = Msg(x, PayloadEventAll, Transformed(em'.event))]_vars

\* --------------------------------------------------- specification: hooks
\* the document hooks of one calling context, with and without an authorization
\* handler, while connections join collection rooms and close
InitHooks ==
  \E a \in {NoAuthorize, [present |-> TRUE, handlers |-> {"posts"}]} :
    InitConnected(NoInvitation,
                  [NoOptions EXCEPT !.authorize = a, !.includeCollections = {"posts"}])

\* the documents the hooks are called with: user u1's, published or not
HookDocs == {d \in Docs : d.author = "u1"}

\* the arguments of their hooks: the document and its id, from an anonymous request
HookArgs == {Args(d, d.id, NoUser) : d \in HookDocs}

NextHooks ==
  \/ \E c \in Collections, op \in {"create", "update"}, a \in HookArgs :
       AfterChange(c, op, a)
  \/ \E c \in Collections, a \in HookArgs : AfterDelete(c, a)
  \/ \E n \in 1..MaxOps : CallFetched(n)
  \/ \E n \in 1..MaxOps : CallAuthorized(n)
  \/ \E s \in Sockets : JoinCollection(s, "posts")
  \/ \E s \in Sockets : Disconnect(s)

SpecHooks == InitHooks /\ [][NextHooks]_vars

\* ---------------------------------------------------------------- C23
\* the step makes exactly one emitEvent call, for an event of this type and collection
OneCall(type, c) ==
  /\ Len(calls') = Len(calls) + 1
  /\ calls'[Len(calls')].event.type = type
  /\ calls'[Len(calls')].event.collection = c
  /\ \A k \in DOMAIN calls : calls'[k] = calls[k]

C25_ClosedDuringCheck ==
  /\ [](\A s \in Sockets : status[s] = "closed" => rooms[s] = {})
  /\ [][\A s \in Sockets :
          (status[s] = "closed" /\ task'[s] # task[s]) => (rooms' = rooms /\ out' = <<>>)]_vars

\* ------------------------------------------------- specification: cluster
\* two instances behind the replication adapter: sockets 1 and 2 are this instance's,
\* socket 3 (user u2, an accepted editor) is connected to the other one
InitCluster ==
  /\ io = TRUE
  /\ status = [s \in Sockets |-> "connected"]
  /\ decoded = [s \in Sockets |-> NoDecoded]
  /\ user = [s \in Sockets |->
       UserInfo(UserDocs[UserOf(s)], [id |-> UserOf(s), collection |-> "users"])]
  /\ handlers = [s \in Sockets |-> s # NumSockets]
  /\ rooms = [s \in Sockets |-> {}]
  /\ refusal = [s \in Sockets |-> None]
  /\ task = [s \in Sockets |-> Idle]
  /\ projects = [p \in Projects |-> "u1"]
  /\ invitations = [k \in Invitees \X Projects |-> [status |-> "accepted", role |-> "editor"]]
  /\ options = [NoOptions EXCEPT !.redis = TRUE,
                                  !.authorize = [present |-> TRUE, handlers |-> {"posts"}]]
  /\ em = NoEmit
  /\ sent = <<>>
  /\ out = <<>>
  /\ startup = Startup("done", "redis://broker", "ready", Clients, TRUE)
  /\ remote = {NumSockets}
  /\ created = <<>>
  /\ calls = <<>>
  /\ log = <<>>
  /\ ops = <<>>

NextCluster ==
  \/ \E x \in Sockets, r \in {ProjectRoom("p1"), CollectionRoom("posts")} : RemoteJoin(x, r)
  \/ \E s \in Sockets : JoinCollection(s, "posts")
  \/ \E s \in Sockets, p \in Projects : JoinProject(s, p)
  \/ \E s \in Sockets :
       \E res \in FindProjectOutcomes(task[s].projectId, 0) : JoinFindByID(s, res)
  \/ \E s \in Sockets :
       \E res \in FindInvitationOutcomes(user[s].id, task[s].projectId) : JoinFind(s, res)
  \/ \E s \in Sockets : JoinJoined(s)
  \/ \E s \in Sockets : JoinFetched(s)
  \/ \E s \in Sockets, p \in Projects : KickUser(s, p, user[NumSockets].id)
  \/ \E s \in Sockets :
       \E res \in FindProjectOutcomes(task[s].projectId, 2) : KickFindByID(s, res)
  \/ \E s \in Sockets : KickFetched(s)
  \/ \E d \in HookDocs :
       EmitEvent(CreateEventPayload("update", "posts", Args(d, d.id, NoUser)))
  \/ EmitFetched
  \/ EmitAuthorized

SpecCluster == InitCluster /\ [][NextCluster]_vars

\* ---------------------------------------------------------------- C26
\* C26: with the adapter, the rooms' members on the other instance count like the
\* local ones: the active-users list a connected joiner is sent names the user of every socket
\* fetched from the room, an owner's kick takes every fetched socket of the target
\* user out of the room, and a gated emitEvent that returns has sent the event to
\* every fetched socket that is still connected and that the handler allows
C26_MembershipIsUnion ==
  [][(\A s \in Sockets :
        (JoinFetched(s) /\ Connected(s)) =>
          \A x \in task[s].sockets :
            \E i \in DOMAIN out' :
              /\ out'[i].to = s
              /\ out'[i].ev = "project:active-users"
              /\ \E k \in DOMAIN out'[i].data : out'[i].data[k].id = user[x].id)
     /\ (\A s \in Sockets :
          KickFetched(s) =>
            \A x \in task[s].sockets :
              (user[x].id = task[s].userId) =>
                (ProjectRoom(task[s].projectId) \notin rooms'[x]))
     /\ ((EmitEnds /\ em'.pc = "done" /\ em.pc = "policy") =>
           \A k \in DOMAIN em.sockets :
             (Connected(em.sockets[k]) /\ Decision(em.sockets[k]) = "allow") =>
               \E i \in DOMAIN sent' :
                 sent'[i] = Msg(em.sockets[k], PayloadEvent, em.finalEvent))]_vars

\* ---------------------------------------------------------------- C28
\* socket s sends a client action without one of its required fields
MissingField(s) ==
  \/ JoinProject(s, None)
  \/ LeaveProject(s, None)
  \/ \E p \in Projects \cup {None}, u \in Members \cup {None} :
       (p = None \/ u = None) /\ KickUser(s, p, u)
  \/ \E r \in ChatRooms \cup {None}, m \in {Message, None} :
       (r = None \/ m = None) /\ SendMessage(s, r, m)
  \/ \E u \in Members \cup {None}, m \in {Message, None} :
       (u = None \/ m = None) /\ SendNotification(s, u, m)

\* C28: an action sent without a required field changes no room membership, stores
\* nothing, starts no handler, and sends one message only, an error event to the caller
C28_ValidationErrors ==
  [][\A s \in Sockets :
       MissingField(s) =>
         /\ rooms' = rooms
         /\ created' = created
         /\ task' = task
         /\ Len(out') = 1
         /\ out'[1].to = s
         /\ out'[1].ev = "error"]_vars

\* ---------------------------------------------------------------- C29
Throw == [kind |-> "throw"]

\* what the caller of a failed operation is sent: the failure event if it is still
\* connected
FailureTo(s, ev, message) == IF Connected(s) THEN <<Msg(s, ev, message)>> ELSE <<>>

\* C29: when a document-store call of join-project or kick-user fails, no room
\* membership changes, the only message is the failure event to the caller
\* (join-project-error, kick-error), and the handler ends with the connection and its
\* handlers as they were, ready for the next message
C29_StoreErrors ==
  [][\A s \in Sockets :
       /\ (JoinFindByID(s, Throw) \/ JoinFind(s, Throw)) =>
            /\ rooms' = rooms
            /\ out' = FailureTo(s, "join-project-error",
                                 "Failed to verify project permissions")
            /\ task'[s] = Idle
            /\ <<status, handlers>>' = <<status, handlers>>
       /\ KickFindByID(s, Throw) =>
            /\ rooms' = rooms
            /\ out' = FailureTo(s, "kick-error", "Failed to kick user")
            /\ task'[s] = Idle
            /\ <<status, handlers>>' = <<status, handlers>>]_vars

\* a join's lookup has just failed: the caller alone was told, while another
\* connection sits in the project room, and the caller can send its next message
C29_Witness ==
  \E s, x \in Sockets :
    /\ x # s
    /\ ProjectRoom("p1") \in rooms[x]
    /\ Connected(x)
    /\ rooms[s] = {}
    /\ out = <<Msg(s, "join-project-error", "Failed to verify project permissions")>>
    /\ CanStart(s)

\* ---------------------------------------------------------------- C30
\* C30: an announcement is sent only by a broadcast-announcement of a connection whose
\* identity has role admin; the call of any other identity sends one message, an
\* error event to the caller
C30_AnnouncementAdminOnly ==
  [][/\ \A i \in DOMAIN out' :
          out'[i].ev = "announcement" =>
            \E s \in Sockets :
              /\ CustomCanHandle(s)
              /\ user[s].role = "admin"
              /\ BroadcastAnnouncement(s, Message)
     /\ \A s \in Sockets :
          (BroadcastAnnouncement(s, Message) /\ user[s].role # "admin") =>
            out' = <<Msg(s, "error", "Only admins can broadcast announcements")>>]_vars

\* an admin's announcement has just gone to both connections, the other one a plain user
C30_Witness ==
  \E a, b \in Sockets :
    /\ Connected(a) /\ Connected(b)
    /\ user[a].role = "admin"
    /\ user[b].role = "user"
    /\ Len(out) = 2
    /\ \A x \in {a, b} :
         \E i \in DOMAIN out :
           out[i] = Msg(x, "announcement", [message |-> Message, from |-> user[a].email])

\* -------------------------------------------------- specification: plugin
\* the plugin from its construction on: document operations on every collection
\* before and after init, with and without a collection included
InitPlugin ==
  /\ io = FALSE
  /\ status = [s \in Sockets |-> "idle"]
  /\ decoded = [s \in Sockets |-> NoDecoded]
  /\ user = [s \in Sockets |-> NoUser]
  /\ handlers = [s \in Sockets |-> FALSE]
  /\ rooms = [s \in Sockets |-> {}]
  /\ refusal = [s \in Sockets |-> None]
  /\ task = [s \in Sockets |-> Idle]
  /\ projects = [p \in Projects |-> "u1"]
  /\ invitations = [k \in Invitees \X Projects |-> NoInvitation]
  /\ options \in {[NoOptions EXCEPT !.includeCollections = cs] : cs \in {{}, {"posts"}}}
  /\ em = NoEmit
  /\ sent = <<>>
  /\ out = <<>>
  /\ startup = NoStartup
  /\ remote = {}
  /\ created = <<>>
  /\ calls = <<>>
  /\ log = <<>>
  /\ ops = <<>>

\* the hook arguments: a document with or without an id of its own, args.id given or
\* not, a request with or without a user
TriggerArgs ==
  {Args(d, i, u) :
     d \in HookDocs \cup {[x EXCEPT !.id = None] : x \in HookDocs},
     i \in {None, "d2"},
     u \in {NoUser, UserInfo(UserDocs["u2"], [id |-> "u2", collection |-> "users"])}}

NextPlugin ==
  \/ InitServer
  \/ \E c \in Collections, op \in {"create", "update"}, a \in TriggerArgs :
       AfterChange(c, op, a)
  \/ \E c \in Collections, a \in TriggerArgs : AfterDelete(c, a)

SpecPlugin == InitPlugin /\ [][NextPlugin]_vars

\* ---------------------------------------------------------------- C31
\* C31: every emitEvent call is for a collection of includeCollections; an operation
\* on any other collection runs no hook of the plugin and makes no call; and with an
\* empty (or absent) list no call is made and nothing is sent
C31_OnlyIncludedCollections ==
  /\ \A n \in DOMAIN calls : calls[n].event.collection \in options.includeCollections
  /\ \A k \in DOMAIN ops :
       ops[k].collection \notin options.includeCollections =>
         (ops[k].call = 0 /\ ops[k].hook = None)
  /\ options.includeCollections = {} => (calls = <<>> /\ log = <<>>)

\* with posts included, an update of a media document went by without a call and an
\* update of a posts document then made one
C31_Witness ==
  /\ options.includeCollections = {"posts"}
  /\ Len(ops) = 2
  /\ ops[1] = Op("media", "update", 0, None)
  /\ ops[2].collection = "posts" /\ ops[2].call = 1
  /\ Len(calls) = 1

\* ---------------------------------------------------------------- C35
\* the event of the call the step has made
NewEvent == calls'[Len(calls')].event

\* C35: the event a hook hands to emitEvent has the trigger's type and collection, the
\* document's id (args.id when the document has none), the document for an update and
\* none for a delete, and a user exactly when the request has one: its id, email and
\* collection
C35_PayloadShaping ==
  [][\A c \in Collections, a \in TriggerArgs :
       LET Shaped(type) ==
             /\ Len(calls') = Len(calls) + 1
             /\ NewEvent.type = type
             /\ NewEvent.collection = c
             /\ NewEvent.id = (IF a.doc.id # None THEN a.doc.id ELSE a.id)
             /\ (type = "update") => (NewEvent.doc = a.doc /\ NewEvent.doc # NoDoc)
             /\ (type = "delete") => (NewEvent.doc = NoDoc)
             /\ (NewEvent.user = NoUser) <=> (a.user = NoUser)
             /\ (a.user # NoUser) =>
                  NewEvent.user = [id |-> a.user.id, email |-> a.user.email,
                                   collection |-> a.user.collection]
       IN /\ (ShouldEmitForCollection(c) /\ AfterChange(c, "update", a)) => Shaped("update")
          /\ (ShouldEmitForCollection(c) /\ AfterDelete(c, a)) => Shaped("delete")]_vars

\* an anonymous update of a document and then a user's delete of one without an id of
\* its own: the second event has args.id, no document and the user
C35_Witness ==
  /\ Len(calls) = 2
  /\ calls[1].event.type = "update"
  /\ calls[1].event.id = "d1"
  /\ calls[1].event.doc \in HookDocs
  /\ calls[1].event.user = NoUser
  /\ calls[2].event.type = "delete"
  /\ calls[2].event.id = "d2"
  /\ calls[2].event.doc = NoDoc
  /\ calls[2].event.user = [id |-> "u2", email |-> "b@x", collection |-> "users"]

\* ---------------------------------------------------------------- C36
\* C36 as stated: an emitEvent call made before init sends nothing and returns
\* normally
C36_BeforeInit ==
  [][(~io /\ Len(calls') > Len(calls)) =>
       /\ calls'[Len(calls')].pc = "done"
       /\ out' = <<>>
       /\ log' = log]_vars

\* ---------------------------------------------------------------- C40
\* C40: no hook ever ends by throwing: when its emitEvent call has failed, the hook
\* has returned all the same
C40_HookCatches ==
  \A k \in DOMAIN ops :
    /\ ops[k].hook # "threw"
    /\ (ops[k].call # 0 /\ calls[ops[k].call].pc = "failed") => ops[k].hook = "returned"

\* a delete's call failed in the authorization handler after one delivery; the hook
\* returned and the calling context went on to the next operation
C40_Witness ==
  /\ Len(ops) = 2
  /\ ops[1].operation = "delete"
  /\ ops[1].call = 1
  /\ calls[1].pc = "failed"
  /\ calls[1].i > 1
  /\ ops[1].hook = "returned"

\* ---------------------------------------------------------------- C32
\* C32: the replication adapter is installed only when both clients, the publishing
\* and the subscribing one, have emitted "ready", and the step that installs it finds
\* both ready
C32_AdapterAfterBothReady ==
  /\ [](startup.adapter => startup.ready = Clients)
  /\ [][(startup'.adapter /\ ~startup.adapter) => startup.ready = Clients]_vars

\* the broker was reachable: both clients became ready, the adapter was installed,
\* init completed and a connection has been accepted since
C32_Witness ==
  /\ startup.adapter
  /\ startup.ready = Clients
  /\ startup.pc = "done"
  /\ \E s \in Sockets : CanHandle(s)

\* ---------------------------------------------------------------- C33
\* the sockets the authorization handler has been called for, in call order: the loop
\* has come to socket i
Invoked ==
  IF em.pc \in {"policy", "failed"} THEN SubSeq(em.sockets, 1, em.i)
  ELSE IF em.pc = "done" THEN em.sockets
  ELSE <<>>

\* the number of handler calls made for socket s
Invocations(s) == Cardinality({k \in DOMAIN Invoked : Invoked[k] = s})

\* C33 as stated: when a gated emitEvent call is over, the handler has been called
\* exactly once for each connection that was in the collection room when the fanout
\* started and not at all for any other connection
C33_PolicyOncePerMember ==
  (HandlerRegistered /\ ~FilterRejects(em.event) /\ em.pc \in {"done", "failed"}) =>
    \A s \in Sockets : Invocations(s) = IF s \in em.members THEN 1 ELSE 0

\* the part of C33 that the source keeps: never twice, never for a connection outside
\* the room, and once for every member when no handler call throws
C33_PolicyOnceUnlessThrown ==
  HandlerRegistered =>
    \A s \in Sockets :
      /\ Invocations(s) <= 1
      /\ s \notin em.members => Invocations(s) = 0
      /\ (em.pc = "done" /\ ~FilterRejects(em.event) /\ s \in em.members) =>
           Invocations(s) = 1

\* --------------------------------------------------- specification: order
\* emitEvent with a filter and a transform that changes what the filters and the
\* authorization handler look at, with and without a handler for the collection
InitOrder ==
  \E a \in {NoAuthorize, [present |-> TRUE, handlers |-> {"posts"}]},
     f \in {"publishedOnly", "authored"} :
    InitConnected(NoInvitation,
                  [NoOptions EXCEPT !.authorize = a, !.shouldEmit = f,
                                    !.transformEvent = "hideAuthor"])

SpecOrder == InitOrder /\ [][NextEmit]_vars

\* ---------------------------------------------------------------- C34
\* the configured filter says yes to the event itself
Accepted(event) == options.shouldEmit = None \/ ShouldEmit(options.shouldEmit, event)

\* C34: emitEvent filters the event it was called with; it transforms the event only
\* when the filter accepted it; every message of the call, on payload:event and on
\* payload:event:all, carries the transformed event; with a handler registered a
\* payload:event message goes only to a connection the handler allows when given the
\* transformed event; and the all-events broadcast comes after the last of them
C34_FixedOrder ==
  /\ [][(em'.n # em.n /\ io) =>
          IF Accepted(em'.event)
            THEN em'.finalEvent = Transformed(em'.event)
            ELSE em'.finalEvent = NoEvent /\ em'.pc = "done" /\ out' = <<>>]_vars
  /\ [](\A i \in DOMAIN sent :
          /\ sent[i].ev \in {PayloadEvent, PayloadEventAll}
          /\ sent[i].data = Transformed(em.event)
          /\ (sent[i].ev = PayloadEvent /\ HandlerRegistered) =>
               Policy(user[sent[i].to], Transformed(em.event)) = "allow"
          /\ (sent[i].ev = PayloadEventAll) =>
               \A j \in DOMAIN sent : sent[j].ev = PayloadEvent => j < i)

\* an unpublished document of u2: the filter saw its author and let the event pass,
\* the transform hid the author, the handler, asked with the transformed event,
\* denied u2's own connection and allowed the admin's, and both got the transformed
\* event on payload:event:all
C34_Witness ==
  /\ options.shouldEmit = "authored"
  /\ HandlerRegistered
  /\ em.pc = "done"
  /\ em.event.doc.status = "draft" /\ em.event.doc.author = "u2"
  /\ em.finalEvent.doc.author = None
  /\ \E a, b \in em.members :
       /\ user[a].role = "admin" /\ user[b].id = "u2"
       /\ Policy(user[b], em.event) = "allow"
       /\ \E i, j, k \in DOMAIN sent :
            /\ sent[i] = Msg(a, PayloadEvent, em.finalEvent)
            /\ sent[j] = Msg(a, PayloadEventAll, em.finalEvent)
            /\ sent[k] = Msg(b, PayloadEventAll, em.finalEvent)
       /\ \A i \in DOMAIN sent : ~(sent[i].to = b /\ sent[i].ev = PayloadEvent)

\* ---------------------------------------------------------------- C37
\* the identities named by the project:user-left notices of the step
LeftNow == {out'[i].data : i \in {j \in DOMAIN out' : out'[j].ev = "project:user-left"}}

\* C37 as stated: after a step that sends a project:user-left notice for an identity to
\* the members of a project room, no connection of that identity is a member of the
\* room
C37_PresenceConsistency ==
  [][\A u \in LeftNow, p \in Projects, x \in Sockets :
       (status'[x] = "connected" /\ user[x].id = u) => ProjectRoom(p) \notin rooms'[x]]_vars

\* ---------------------------------------------------------------- C38
\* C38 as stated: a step sends a project:user-left notice for an identity only if a
\* connection of that identity was a member of the project room before the step
C38_LeftOnlyIfMember ==
  [][\A u \in LeftNow :
       \E p \in Projects, x \in Sockets : user[x].id = u /\ ProjectRoom(p) \in rooms[x]]_vars

\* --------------------------------------------------- specification: frame
\* kick-user among connections that sit in their identity rooms and in a collection
\* room, while connections join the project room, subscribe and close
InitFrame ==
  InitConnected([status |-> "accepted", role |-> "editor"],
                [NoOptions EXCEPT !.onSocketConnection = "examples"])

NextFrame ==
  \/ \E s \in Sockets : JoinCollection(s, "posts")
  \/ \E s \in Sockets, p \in Projects : JoinProject(s, p)
  \/ \E s \in Sockets :
       \E res \in FindProjectOutcomes(task[s].projectId, 0) : JoinFindByID(s, res)
  \/ \E s \in Sockets :
       \E res \in FindInvitationOutcomes(user[s].id, task[s].projectId) : JoinFind(s, res)
  \/ \E s \in Sockets : JoinJoined(s)
  \/ \E s \in Sockets : JoinFetched(s)
  \/ \E s \in Sockets, p \in Projects, u \in Members : KickUser(s, p, u)
  \/ \E s \in Sockets :
       \E res \in FindProjectOutcomes(task[s].projectId, 2) : KickFindByID(s, res)
  \/ \E s \in Sockets : KickFetched(s)
  \/ \E s \in Sockets : Disconnect(s)

SpecFrame == InitFrame /\ [][NextFrame]_vars

\* ---------------------------------------------------------------- C39
KickPcs == {"kick:findByID", "kick:fetchSockets"}

\* the step is one of socket s's kick-user handler
KickStep(s) ==
  task'[s] # task[s] /\ (task[s].pc \in KickPcs \/ task'[s].pc \in KickPcs)

====
